---- MODULE Spec2Model ----
(***************************************************************************)
(* A model of rlox, a tree-walking interpreter for Lox written in Rust.    *)
(*                                                                         *)
(*   - Value, Environment            src/src/value.rs, environment.rs      *)
(*   - LoxFunction, Clock            src/src/lox_function.rs, clock.rs     *)
(*   - Interpreter                   src/src/interpreter.rs                *)
(*                                                                         *)
(* The interpreter is recursive and single threaded.  Every function of    *)
(* the source that takes `&mut self` is an operator that takes the value   *)
(* of `self` and returns the new value of `self` together with the         *)
(* function's return value.                                                *)
(*                                                                         *)
(* Numbers are f64 in the source.  The programs of the model only compute  *)
(* with small integers, which f64 represents exactly, and Number(n)        *)
(* carries an integer.                                                     *)
(***************************************************************************)
EXTENDS Integers, Sequences, FiniteSets, TLC

VARIABLES
    environment,  \* Interpreter.environment (SpecEnv: the Environment under test)
    prev,         \* `environment` before the last operation
    program,      \* the input of the last operation
    result,       \* what the last operation returned
    output,       \* the lines the last operation wrote to stdout
    runs          \* number of operations so far

vars == <<environment, prev, program, result, output, runs>>

(***************************************************************************)
(* Bounds                                                                  *)
(***************************************************************************)
MaxRuns == 2      \* interpret calls on one Interpreter
MaxOps == 4       \* Environment operations in SpecEnv
MaxFact == 5      \* largest argument of the factorial program
MaxArguments == 3 \* arguments of a call of the two-parameter function
MaxClock == 2     \* readings of the system clock, in seconds
MaxSourceLen == 4 \* chars of a scanned source in SpecScan
MaxDecls == 3     \* declarations of a parsed token list in SpecParse
ForLimit == 3     \* largest limit of the counting for loop
MaxLines == 3     \* lines read by run_prompt
MaxTokens == 4    \* tokens before the Eof of a parsed token list
MaxNesting == 1   \* opening parentheses and braces in a parsed token list

(***************************************************************************)
(* Option<T> is a sequence of length 0 (None) or 1 (Some).                 *)
(***************************************************************************)
None == <<>>
Some(x) == <<x>>

(***************************************************************************)
(* Result<T, RuntimeError>.  A panic of the Rust program (an index out of  *)
(* bounds) is carried like an error of kind "Panic"; unlike an Err it is   *)
(* never caught by a match.                                                *)
(***************************************************************************)
Ok(v) == [ok |-> TRUE, val |-> v]
Err(kind, payload) == [ok |-> FALSE, val |-> <<kind, payload>>]
Unit == <<>>
IsErr(r, kind) == ~r.ok /\ r.val[1] = kind
IsPanic(r) == IsErr(r, "Panic")

(***************************************************************************)
(* Value (value.rs) and the two callables.                                 *)
(***************************************************************************)
\* A value is a tuple of its variant's name and its payload.
Nil == <<"Nil">>
Bool(b) == <<"Bool", b>>
Number(n) == <<"Number", n>>
String(s) == <<"String", s>>
Function(c) == <<"Function", c>>

Clock_new == [kind |-> "Clock"]

LoxFunction_new(name, params, body) ==
    [kind |-> "LoxFunction", name |-> name, params |-> params, body |-> body]

Value_is_truthy_no_zero(self) ==
    ~(self = Nil \/ self = Bool(FALSE) \/ self = Number(0))

Value_is_truthy(self) == ~(self = Nil \/ self = Bool(FALSE))

(***************************************************************************)
(* Display for Value: the text println!("{}", value) writes.               *)
(***************************************************************************)
Digit(d) ==
    CASE d = 0 -> "0" [] d = 1 -> "1" [] d = 2 -> "2" [] d = 3 -> "3"
      [] d = 4 -> "4" [] d = 5 -> "5" [] d = 6 -> "6" [] d = 7 -> "7"
      [] d = 8 -> "8" [] d = 9 -> "9"

RECURSIVE Digits(_)
Digits(n) == IF n < 10 THEN Digit(n) ELSE Digits(n \div 10) \o Digit(n % 10)

Number_fmt(n) == IF n < 0 THEN "-" \o Digits(0 - n) ELSE Digits(n)

Value_fmt(self) ==
    CASE self[1] = "Bool" -> (IF self[2] THEN "true" ELSE "false")
      [] self[1] = "Function" -> "<LoxCallable>"
      [] self[1] = "Nil" -> "nil"
      [] self[1] = "Number" -> Number_fmt(self[2])
      [] self[1] = "String" -> self[2]

(***************************************************************************)
(* Environment (environment.rs): a map of values and an optional parent.   *)
(* The parent is an Rc<RefCell<Environment>>.  The only Environment the    *)
(* program ever reads or writes through is Interpreter.environment and the *)
(* chain below it; every other holder of a parent Rc (the temporary clone  *)
(* made for a block, the `env` local of LoxFunction::call) is dropped      *)
(* without being read again.  So a chain behaves as a value, and clone()   *)
(* is the identity on it.                                                  *)
(***************************************************************************)
Environment_new == [parent |-> None, values |-> <<>>]

Environment_new_with_parent(parent) == [parent |-> Some(parent), values |-> <<>>]

\* assign returns the new `self` (env) and the Option<Value> it returns (ret).
RECURSIVE Environment_assign_outermost(_, _, _)
Environment_assign_outermost(self, name, value) ==
    LET up == IF self.parent # None
              THEN Environment_assign_outermost(self.parent[1], name, value)
              ELSE [env |-> self, ret |-> None]
    IN IF up.ret # None
       THEN [env |-> [self EXCEPT !.parent = Some(up.env)], ret |-> up.ret]
       ELSE IF name \in DOMAIN self.values
            THEN [env |-> [self EXCEPT !.values[name] = value],
                  ret |-> Some(self.values[name])]
            ELSE [env |-> self, ret |-> None]

RECURSIVE Environment_assign(_, _, _)
Environment_assign(self, name, value) ==
    IF name \in DOMAIN self.values
    THEN [env |-> [self EXCEPT !.values[name] = value],
          ret |-> Some(self.values[name])]
    ELSE IF self.parent # None
         THEN LET r == Environment_assign(self.parent[1], name, value)
              IN [env |-> [self EXCEPT !.parent = Some(r.env)], ret |-> r.ret]
         ELSE [env |-> self, ret |-> None]

RECURSIVE Environment_define_in_root(_, _, _)
Environment_define_in_root(self, name, value) ==
    IF self.parent # None
    THEN [self EXCEPT !.parent =
              Some(Environment_define_in_root(self.parent[1], name, value))]
    ELSE [self EXCEPT !.values = (name :> value) @@ self.values]

Environment_define(self, name, value) ==
    [self EXCEPT !.values = (name :> value) @@ self.values]

RECURSIVE Environment_get_outermost(_, _)
Environment_get_outermost(self, name) ==
    LET up == IF self.parent # None
              THEN Environment_get_outermost(self.parent[1], name)
              ELSE Err("UndefinedVariable", name)
    IN IF up.ok THEN up
       ELSE IF name \in DOMAIN self.values THEN Ok(self.values[name]) ELSE up

RECURSIVE Environment_get(_, _)
Environment_get(self, name) ==
    IF name \in DOMAIN self.values
    THEN Ok(self.values[name])
    ELSE IF self.parent # None
         THEN Environment_get(self.parent[1], name)
         ELSE Err("UndefinedVariable", name)

\* take_parent returns the new `self` (env) and the Option<Environment> (ret).
Environment_take_parent(self) ==
    IF self.parent = None
    THEN [env |-> self, ret |-> None]
    ELSE [env |-> [self EXCEPT !.parent = None], ret |-> Some(self.parent[1])]

\* Number of scopes on the chain, and the scope `k` steps up the chain.
RECURSIVE Depth(_)
Depth(env) == IF env.parent = None THEN 1 ELSE 1 + Depth(env.parent[1])

RECURSIVE Ancestor(_, _)
Ancestor(env, k) == IF k = 0 THEN env ELSE Ancestor(env.parent[1], k - 1)

\* The names a lookup from `env` can see.
RECURSIVE Visible(_)
Visible(env) ==
    DOMAIN env.values \cup (IF env.parent = None THEN {} ELSE Visible(env.parent[1]))

(***************************************************************************)
(* Token (token.rs), Expr and Stmt (stmt.rs and the variants matched in    *)
(* interpreter.rs).  Box<T> is T, Vec<T> is a sequence.                    *)
(***************************************************************************)
Token_new_with_lexeme(token_type, lexeme, line) ==
    [token_type |-> token_type, lexeme |-> lexeme, line |-> line]

Expr_Assign(name, value) == [e |-> "Assign", name |-> name, value |-> value]
Expr_Binary(left, operator, right) ==
    [e |-> "Binary", left |-> left, operator |-> operator, right |-> right]
Expr_Call(callee, paren, arguments) ==
    [e |-> "Call", callee |-> callee, paren |-> paren, arguments |-> arguments]
Expr_Get(object, name) == [e |-> "Get", object |-> object, name |-> name]
Expr_Grouping(expression) == [e |-> "Grouping", expression |-> expression]
Expr_Literal(value) == [e |-> "Literal", value |-> value]
Expr_Logical(left, operator, right) ==
    [e |-> "Logical", left |-> left, operator |-> operator, right |-> right]
Expr_Set(object, name, value) ==
    [e |-> "Set", object |-> object, name |-> name, value |-> value]
Expr_This(keyword) == [e |-> "This", keyword |-> keyword]
Expr_Unary(operator, right) == [e |-> "Unary", operator |-> operator, right |-> right]
Expr_Variable(name) == [e |-> "Variable", name |-> name]

Stmt_Block(statements) == [s |-> "Block", statements |-> statements]
Stmt_Class(name, methods) == [s |-> "Class", name |-> name, methods |-> methods]
Stmt_Expr(expr) == [s |-> "Expr", expr |-> expr]
Stmt_Function(name, params, body) ==
    [s |-> "Function", name |-> name, params |-> params, body |-> body]
Stmt_If(condition, then_branch, else_branch) ==
    [s |-> "If", condition |-> condition, then_branch |-> then_branch,
     else_branch |-> else_branch]
Stmt_Print(expr) == [s |-> "Print", expr |-> expr]
Stmt_Return(keyword, value) == [s |-> "Return", keyword |-> keyword, value |-> value]
Stmt_Var(name, initializer) == [s |-> "Var", name |-> name, initializer |-> initializer]
Stmt_While(condition, body) == [s |-> "While", condition |-> condition, body |-> body]

(***************************************************************************)
(* Interpreter (interpreter.rs).  `self` is the record                     *)
(*   [environment |-> Interpreter.environment,                             *)
(*    stdout      |-> the lines println! has written,                      *)
(*    now         |-> the reading of SystemTime::now()]                    *)
(* and every operator returns Ret(self', r) with r the Rust return value.  *)
(***************************************************************************)
Ret(self, r) == [i |-> self, r |-> r]

\* A quotient that is not an integer (or inf, NaN) is outside the integers
\* the model computes with; no program of the model uses such a value again.
Inexact == "inexact"

Number_div(l, r) ==
    IF r = 0 THEN Number(Inexact)
    ELSE LET al == IF l < 0 THEN 0 - l ELSE l
             ar == IF r < 0 THEN 0 - r ELSE r
         IN IF al % ar # 0 THEN Number(Inexact)
            ELSE IF (l < 0) = (r < 0) THEN Number(al \div ar)
                 ELSE Number(0 - (al \div ar))

Binary_apply_mismatch_plus_is_nil(operator) ==
    CASE operator.token_type = "EqualEqual" -> Ok(Bool(FALSE))
      [] operator.token_type = "BangEqual" -> Ok(Bool(TRUE))
      [] operator.token_type = "Plus" -> Ok(Nil)
      [] OTHER -> Err("InvalidOperator", operator)

\* The last arm of evaluate_binary: operands of two different variants (or
\* two functions).
Binary_apply_mismatch(operator) ==
    CASE operator.token_type = "EqualEqual" -> Ok(Bool(FALSE))
      [] operator.token_type = "BangEqual" -> Ok(Bool(TRUE))
      [] OTHER -> Err("InvalidOperator", operator)

\* The match on the operand variants and the operator of evaluate_binary.
Binary_apply(l, operator, r) ==
    LET op == operator.token_type
        invalid == Err("InvalidOperator", operator)
    IN CASE l[1] = "Number" /\ r[1] = "Number" ->
              (CASE op = "Plus" -> Ok(Number(l[2] + r[2]))
                 [] op = "Minus" -> Ok(Number(l[2] - r[2]))
                 [] op = "Star" -> Ok(Number(l[2] * r[2]))
                 [] op = "Slash" -> Ok(Number_div(l[2], r[2]))
                 [] op = "Greater" -> Ok(Bool(l[2] > r[2]))
                 [] op = "GreaterEqual" -> Ok(Bool(l[2] >= r[2]))
                 [] op = "Less" -> Ok(Bool(l[2] < r[2]))
                 [] op = "LessEqual" -> Ok(Bool(l[2] <= r[2]))
                 [] op = "EqualEqual" -> Ok(Bool(l[2] = r[2]))
                 [] op = "BangEqual" -> Ok(Bool(l[2] # r[2]))
                 [] OTHER -> invalid)
         [] l[1] = "String" /\ r[1] = "String" ->
              (CASE op = "Plus" -> Ok(String(l[2] \o r[2]))
                 [] op = "EqualEqual" -> Ok(Bool(l[2] = r[2]))
                 [] op = "BangEqual" -> Ok(Bool(l[2] # r[2]))
                 [] OTHER -> invalid)
         [] l[1] = "Bool" /\ r[1] = "Bool" ->
              (CASE op = "EqualEqual" -> Ok(Bool(l[2] = r[2]))
                 [] op = "BangEqual" -> Ok(Bool(l[2] # r[2]))
                 [] OTHER -> invalid)
         [] l[1] = "Nil" /\ r[1] = "Nil" ->
              (CASE op = "EqualEqual" -> Ok(Bool(TRUE))
                 [] op = "BangEqual" -> Ok(Bool(FALSE))
                 [] OTHER -> invalid)
         [] OTHER -> Binary_apply_mismatch(operator)

\* The match on the operator of evaluate_unary.
Unary_apply(operator, result_) ==
    CASE operator.token_type = "Minus" ->
            IF result_[1] = "Number" THEN Ok(Number(0 - result_[2]))
            ELSE Err("NumberExpectedAfterMinus", operator.line)
      [] operator.token_type = "Bang" -> Ok(Bool(~Value_is_truthy(result_)))
      [] OTHER -> Err("InvalidOperator", operator)

\* Expr::Logical: does the left operand decide the result?
Logical_never_short_circuits(operator, left_result) == FALSE

Logical_short_circuits(operator, left_result) ==
    IF operator.token_type = "Or"
    THEN Value_is_truthy(left_result)
    ELSE ~Value_is_truthy(left_result)

\* LoxFunction::call: the value of the call, from the result of the body.
LoxFunction_call_result_nil(result_) == Nil

LoxFunction_call_result(result_) ==
    IF IsErr(result_, "Return") THEN result_.val[2] ELSE Nil

\* LoxFunction::call: define the parameters, in order, in `env`.
\* arguments[i] panics when there are fewer arguments than parameters.
RECURSIVE LoxFunction_define_params(_, _, _, _)
LoxFunction_define_params(env, params, arguments, i) ==
    IF i > Len(params) THEN Ok(env)
    ELSE IF i > Len(arguments) THEN Err("Panic", "index out of bounds")
    ELSE LoxFunction_define_params(
             Environment_define(env, params[i].lexeme, arguments[i]),
             params, arguments, i + 1)

RECURSIVE Interpreter_execute(_, _)
RECURSIVE Interpreter_execute_all(_, _)
RECURSIVE Interpreter_execute_block(_, _, _)
RECURSIVE Interpreter_execute_while(_, _, _)
RECURSIVE Interpreter_evaluate(_, _)
RECURSIVE Interpreter_evaluate_arguments(_, _, _)
RECURSIVE Interpreter_evaluate_unary(_, _, _)
RECURSIVE Interpreter_evaluate_binary(_, _, _, _)
RECURSIVE LoxFunction_call(_, _, _)

\* Clock::call
Clock_call(self, interpreter, arguments) ==
    Ret(interpreter, Ok(Number(interpreter.now)))

LoxCallable_call(self, interpreter, arguments) ==
    IF self.kind = "Clock"
    THEN Clock_call(self, interpreter, arguments)
    ELSE LoxFunction_call(self, interpreter, arguments)

\* for statement in statements { self.execute(statement)?; }
Interpreter_execute_all(self, statements) ==
    IF statements = <<>> THEN Ret(self, Ok(Unit))
    ELSE LET x == Interpreter_execute(self, Head(statements))
         IN IF x.r.ok THEN Interpreter_execute_all(x.i, Tail(statements)) ELSE x

Interpreter_interpret(self, statements) == Interpreter_execute_all(self, statements)

Interpreter_execute(self, statement) ==
    CASE statement.s = "Block" ->
            Interpreter_execute_block(self, statement.statements, self.environment)
      [] statement.s = "Class" -> Ret(self, Ok(Unit))
      [] statement.s = "Expr" ->
            LET x == Interpreter_evaluate(self, statement.expr)
            IN IF x.r.ok THEN Ret(x.i, Ok(Unit)) ELSE x
      [] statement.s = "If" ->
            LET c == Interpreter_evaluate(self, statement.condition)
            IN IF IsPanic(c.r) THEN c
               ELSE IF c.r.ok
               THEN IF Value_is_truthy(c.r.val)
                    THEN Interpreter_execute(c.i, statement.then_branch)
                    ELSE IF statement.else_branch # None
                         THEN Interpreter_execute(c.i, statement.else_branch[1])
                         ELSE Ret(c.i, Ok(Unit))
               ELSE Ret(c.i, Ok(Unit))
      [] statement.s = "Function" ->
            LET f == LoxFunction_new(statement.name, statement.params, statement.body)
            IN Ret([self EXCEPT !.environment =
                        Environment_define(@, statement.name.lexeme, Function(f))],
                   Ok(Unit))
      [] statement.s = "Print" ->
            LET x == Interpreter_evaluate(self, statement.expr)
            IN IF IsPanic(x.r) THEN x
               ELSE IF x.r.ok
               THEN Ret([x.i EXCEPT !.stdout = Append(@, Value_fmt(x.r.val))], Ok(Unit))
               ELSE Ret(x.i, Ok(Unit))
      [] statement.s = "Return" ->
            IF statement.value # None
            THEN LET x == Interpreter_evaluate(self, statement.value[1])
                 IN IF x.r.ok THEN Ret(x.i, Err("Return", x.r.val)) ELSE x
            ELSE Ret(self, Err("Return", Nil))
      [] statement.s = "Var" ->
            IF statement.initializer = None
            THEN Ret([self EXCEPT !.environment =
                          Environment_define(@, statement.name.lexeme, Nil)],
                     Ok(Unit))
            ELSE LET x == Interpreter_evaluate(self, statement.initializer[1])
                 IN IF IsPanic(x.r) THEN x
                    ELSE IF x.r.ok
                    THEN Ret([x.i EXCEPT !.environment =
                                  Environment_define(@, statement.name.lexeme, x.r.val)],
                             Ok(Unit))
                    ELSE Ret(x.i, Ok(Unit))
      [] statement.s = "While" ->
            Interpreter_execute_while(self, statement.condition, statement.body)

Interpreter_execute_block(self, statements, env) ==
    LET b == Interpreter_execute_all(
                 [self EXCEPT !.environment = Environment_new_with_parent(env)],
                 statements)
    IN IF ~b.r.ok THEN b
       ELSE LET t == Environment_take_parent(b.i.environment)
            IN Ret([b.i EXCEPT !.environment =
                        IF t.ret # None THEN t.ret[1] ELSE t.env],
                   Ok(Unit))

Interpreter_execute_while(self, condition, body) ==
    LET c == Interpreter_evaluate(self, condition)
    IN IF ~c.r.ok THEN c
       ELSE IF Value_is_truthy(c.r.val)
       THEN LET x == Interpreter_execute(c.i, body)
            IN IF x.r.ok THEN Interpreter_execute_while(x.i, condition, body) ELSE x
       ELSE Ret(c.i, Ok(Unit))

\* for argument in arguments { args.push(self.evaluate(argument)?); }
Interpreter_evaluate_arguments(self, arguments, args) ==
    IF arguments = <<>> THEN Ret(self, Ok(args))
    ELSE LET x == Interpreter_evaluate(self, Head(arguments))
         IN IF x.r.ok
            THEN Interpreter_evaluate_arguments(x.i, Tail(arguments), Append(args, x.r.val))
            ELSE x

Interpreter_evaluate(self, expr) ==
    CASE expr.e = "Assign" ->
            LET v == Interpreter_evaluate(self, expr.value)
            IN IF ~v.r.ok THEN v
               ELSE LET a == Environment_assign(v.i.environment, expr.name.lexeme, v.r.val)
                    IN Ret([v.i EXCEPT !.environment = a.env], Ok(v.r.val))
      [] expr.e = "Binary" ->
            Interpreter_evaluate_binary(self, expr.left, expr.operator, expr.right)
      [] expr.e = "Call" ->
            LET callee == Interpreter_evaluate(self, expr.callee)
            IN IF ~callee.r.ok THEN callee
               ELSE IF callee.r.val[1] = "Function"
               THEN LET args == Interpreter_evaluate_arguments(callee.i, expr.arguments, <<>>)
                    IN IF ~args.r.ok THEN args
                       ELSE LoxCallable_call(callee.r.val[2], args.i, args.r.val)
               ELSE Ret(callee.i, Err("ValueNotCallable", callee.r.val))
      [] expr.e = "Get" -> Ret(self, Err("InvalidOperator", expr.name))
      [] expr.e = "Grouping" -> Interpreter_evaluate(self, expr.expression)
      [] expr.e = "Literal" -> Ret(self, Ok(expr.value))
      [] expr.e = "Logical" ->
            LET left_result == Interpreter_evaluate(self, expr.left)
            IN IF ~left_result.r.ok THEN left_result
               ELSE IF Logical_short_circuits(expr.operator, left_result.r.val)
               THEN left_result
               ELSE Interpreter_evaluate(left_result.i, expr.right)
      [] expr.e = "Set" -> Ret(self, Err("InvalidOperator", expr.name))
      [] expr.e = "This" -> Ret(self, Err("InvalidOperator", expr.keyword))
      [] expr.e = "Unary" -> Interpreter_evaluate_unary(self, expr.operator, expr.right)
      [] expr.e = "Variable" ->
            Ret(self, Environment_get(self.environment, expr.name.lexeme))

Interpreter_evaluate_unary(self, operator, right) ==
    LET x == Interpreter_evaluate(self, right)
    IN IF ~x.r.ok THEN x ELSE Ret(x.i, Unary_apply(operator, x.r.val))

Interpreter_evaluate_binary_right_first(self, left, operator, right) ==
    LET r == Interpreter_evaluate(self, right)
    IN IF ~r.r.ok THEN r
       ELSE LET l == Interpreter_evaluate(r.i, left)
            IN IF ~l.r.ok THEN l
               ELSE Ret(l.i, Binary_apply(l.r.val, operator, r.r.val))

Interpreter_evaluate_binary(self, left, operator, right) ==
    LET l == Interpreter_evaluate(self, left)
    IN IF ~l.r.ok THEN l
       ELSE LET r == Interpreter_evaluate(l.i, right)
            IN IF ~r.r.ok THEN r
               ELSE Ret(r.i, Binary_apply(l.r.val, operator, r.r.val))

LoxFunction_call(self, interpreter, arguments) ==
    LET env == LoxFunction_define_params(
                   Environment_new_with_parent(interpreter.environment),
                   self.params, arguments, 1)
    IN IF ~env.ok THEN Ret(interpreter, env)
       ELSE LET result_ == Interpreter_execute_block(interpreter, self.body, env.val)
            IN IF IsPanic(result_.r) THEN result_
               ELSE Ret(result_.i, Ok(LoxFunction_call_result(result_.r)))

\* Interpreter::new
Interpreter_new ==
    [environment |-> Environment_define(Environment_new, "clock", Function(Clock_new))]

(***************************************************************************)
(* SpecEnv: the operations of Environment applied in any order to one      *)
(* Environment, as the unit tests of environment.rs do.                    *)
(***************************************************************************)
EnvNames == {"key", "other"}
EnvValues == <<String("value"), String("new value"), Number(1)>>

InitEnv ==
    /\ environment = Environment_new
    /\ prev = Environment_new
    /\ program = [op |-> "new"]
    /\ result = None
    /\ output = <<>>
    /\ runs = 0

EnvStep(op, ret, env) ==
    /\ runs < MaxOps
    /\ runs' = runs + 1
    /\ prev' = environment
    /\ program' = op
    /\ result' = ret
    /\ environment' = env
    /\ UNCHANGED output

Define(name, value) ==
    EnvStep([op |-> "define", name |-> name, value |-> value], None,
            Environment_define(environment, name, value))

Assign(name, value) ==
    LET r == Environment_assign(environment, name, value)
    IN EnvStep([op |-> "assign", name |-> name, value |-> value], r.ret, r.env)

Get(name) ==
    EnvStep([op |-> "get", name |-> name], Environment_get(environment, name),
            environment)

\* let env = Environment::new_with_parent(env);
NewWithParent ==
    EnvStep([op |-> "new_with_parent"], None,
            Environment_new_with_parent(environment))

\* if let Some(parent) = env.take_parent() { env = parent; }
TakeParent ==
    LET r == Environment_take_parent(environment)
    IN EnvStep([op |-> "take_parent"], r.ret,
               IF r.ret # None THEN r.ret[1] ELSE r.env)

NextEnv ==
    \/ \E name \in EnvNames, i \in DOMAIN EnvValues : Define(name, EnvValues[i])
    \/ \E name \in EnvNames, i \in DOMAIN EnvValues : Assign(name, EnvValues[i])
    \/ \E name \in EnvNames : Get(name)
    \/ NewWithParent
    \/ TakeParent

SpecEnv == InitEnv /\ [][NextEnv]_vars

(***************************************************************************)
(* The programs the model interprets, as the statement lists the parser    *)
(* hands to Interpreter::interpret.  The source text is given above each.  *)
(* No program defines the names x and q.                                   *)
(***************************************************************************)
Ident(name) == Token_new_with_lexeme("Identifier", name, 1)
Op(token_type, lexeme) == Token_new_with_lexeme(token_type, lexeme, 1)
Paren == Token_new_with_lexeme("RightParen", ")", 1)
ReturnKw == Token_new_with_lexeme("Return", "return", 1)
Num(n) == Expr_Literal(Number(n))
Str(t) == Expr_Literal(String(t))
VarRef(name) == Expr_Variable(Ident(name))
CallOf(name, arguments) == Expr_Call(VarRef(name), Paren, arguments)

\* var a = <n>;
P_Var(n) == << Stmt_Var(Ident("a"), Some(Num(n))) >>

\* a = 3;
P_Assign == << Stmt_Expr(Expr_Assign(Ident("a"), Num(3))) >>

\* { var b = 1; a = 2; }
P_BlockOk ==
    << Stmt_Block(<< Stmt_Var(Ident("b"), Some(Num(1))),
                     Stmt_Expr(Expr_Assign(Ident("a"), Num(2))) >>) >>

\* { var b = 1; x; }
P_BlockError ==
    << Stmt_Block(<< Stmt_Var(Ident("b"), Some(Num(1))),
                     Stmt_Expr(VarRef("x")) >>) >>

\* { var b = 1; return b; }
P_BlockReturn ==
    << Stmt_Block(<< Stmt_Var(Ident("b"), Some(Num(1))),
                     Stmt_Return(ReturnKw, Some(VarRef("b"))) >>) >>

\* var a = "global"; fun show() { print a; } { var a = "local"; show(); }
P_Closure ==
    << Stmt_Var(Ident("a"), Some(Str("global"))),
       Stmt_Function(Ident("show"), <<>>, << Stmt_Print(VarRef("a")) >>),
       Stmt_Block(<< Stmt_Var(Ident("a"), Some(Str("local"))),
                     Stmt_Expr(CallOf("show", <<>>)) >>) >>

\* print x; print 1;
P_PrintUndefined == << Stmt_Print(VarRef("x")), Stmt_Print(Num(1)) >>

\* var b = x; print 1;
P_VarUndefined == << Stmt_Var(Ident("b"), Some(VarRef("x"))), Stmt_Print(Num(1)) >>

\* if (x) print 2; print 1;
P_IfUndefined ==
    << Stmt_If(VarRef("x"), Stmt_Print(Num(2)), None), Stmt_Print(Num(1)) >>

\* q = 1;
P_AssignUndefined == << Stmt_Expr(Expr_Assign(Ident("q"), Num(1))) >>

\* return 1;
P_Return == << Stmt_Return(ReturnKw, Some(Num(1))) >>

\* fun g() { -"s"; print "in g"; } g(); print "after";
P_CallError ==
    << Stmt_Function(Ident("g"), <<>>,
           << Stmt_Expr(Expr_Unary(Op("Minus", "-"), Str("s"))),
              Stmt_Print(Str("in g")) >>),
       Stmt_Expr(CallOf("g", <<>>)),
       Stmt_Print(Str("after")) >>

\* fun f(n) { if (n <= 1) return 1; return n * f(n - 1); } print f(<k>);
P_Fact(k) ==
    << Stmt_Function(Ident("f"), << Ident("n") >>,
           << Stmt_If(Expr_Binary(VarRef("n"), Op("LessEqual", "<="), Num(1)),
                      Stmt_Return(ReturnKw, Some(Num(1))), None),
              Stmt_Return(ReturnKw,
                  Some(Expr_Binary(VarRef("n"), Op("Star", "*"),
                           CallOf("f", << Expr_Binary(VarRef("n"), Op("Minus", "-"),
                                                       Num(1)) >>)))) >>),
       Stmt_Print(CallOf("f", << Num(k) >>)) >>

\* fun g(n) { { { if (true) { while (true) { return n; } } } } return "end"; }
\* print g(<v>);
P_DeepReturn(v) ==
    << Stmt_Function(Ident("g"), << Ident("n") >>,
           << Stmt_Block(<< Stmt_Block(<<
                  Stmt_If(Expr_Literal(Bool(TRUE)),
                      Stmt_Block(<< Stmt_While(Expr_Literal(Bool(TRUE)),
                          Stmt_Block(<< Stmt_Return(ReturnKw, Some(VarRef("n"))) >>)) >>),
                      None) >>) >>),
              Stmt_Return(ReturnKw, Some(Str("end"))) >>),
       Stmt_Print(CallOf("g", << Expr_Literal(v) >>)) >>

\* fun h() { var b = 1; } print h();
P_NoReturn ==
    << Stmt_Function(Ident("h"), <<>>, << Stmt_Var(Ident("b"), Some(Num(1))) >>),
       Stmt_Print(CallOf("h", <<>>)) >>

\* var a = 0; var r = <left> or (a = 1);       (and the same with `and`)
P_Logical(operator, left) ==
    << Stmt_Var(Ident("a"), Some(Num(0))),
       Stmt_Var(Ident("r"),
           Some(Expr_Logical(left, operator,
                    Expr_Grouping(Expr_Assign(Ident("a"), Num(1)))))) >>

\* var a = 1; { var a = 2; print a; } print a;
P_Shadow ==
    << Stmt_Var(Ident("a"), Some(Num(1))),
       Stmt_Block(<< Stmt_Var(Ident("a"), Some(Num(2))), Stmt_Print(VarRef("a")) >>),
       Stmt_Print(VarRef("a")) >>

\* print clock() >= 0;
P_Clock ==
    << Stmt_Print(Expr_Binary(CallOf("clock", <<>>), Op("GreaterEqual", ">="), Num(0))) >>

\* var a = 1; print (a = a + 1) + (a = a * 3); print a;
P_BinaryOrder ==
    << Stmt_Var(Ident("a"), Some(Num(1))),
       Stmt_Print(Expr_Binary(
           Expr_Grouping(Expr_Assign(Ident("a"),
               Expr_Binary(VarRef("a"), Op("Plus", "+"), Num(1)))),
           Op("Plus", "+"),
           Expr_Grouping(Expr_Assign(Ident("a"),
               Expr_Binary(VarRef("a"), Op("Star", "*"), Num(3)))))),
       Stmt_Print(VarRef("a")) >>

\* fun f(x, y, z) { print x; print y; print z; print a; }
\* var h = 0; var a = 1; (h = f)(h, a = a + 1, a = a * 3);
P_CallOrder ==
    << Stmt_Function(Ident("f"), << Ident("x"), Ident("y"), Ident("z") >>,
           << Stmt_Print(VarRef("x")), Stmt_Print(VarRef("y")),
              Stmt_Print(VarRef("z")), Stmt_Print(VarRef("a")) >>),
       Stmt_Var(Ident("h"), Some(Num(0))),
       Stmt_Var(Ident("a"), Some(Num(1))),
       Stmt_Expr(Expr_Call(
           Expr_Grouping(Expr_Assign(Ident("h"), VarRef("f"))), Paren,
           << VarRef("h"),
              Expr_Assign(Ident("a"), Expr_Binary(VarRef("a"), Op("Plus", "+"), Num(1))),
              Expr_Assign(Ident("a"), Expr_Binary(VarRef("a"), Op("Star", "*"), Num(3))) >>)) >>

\* fun p(n) { print n; return n; } print p(1) - p(2);
P_PrintOrder ==
    << Stmt_Function(Ident("p"), << Ident("n") >>,
           << Stmt_Print(VarRef("n")), Stmt_Return(ReturnKw, Some(VarRef("n"))) >>),
       Stmt_Print(Expr_Binary(CallOf("p", << Num(1) >>), Op("Minus", "-"),
                              CallOf("p", << Num(2) >>))) >>

\* print 1; var a = 2; print a; a = 3; print a;
P_StatementOrder ==
    << Stmt_Print(Num(1)),
       Stmt_Var(Ident("a"), Some(Num(2))),
       Stmt_Print(VarRef("a")),
       Stmt_Expr(Expr_Assign(Ident("a"), Num(3))),
       Stmt_Print(VarRef("a")) >>

\* class A {} A;        (no other program defines A)
P_Class == << Stmt_Class(Ident("A"), <<>>), Stmt_Expr(VarRef("A")) >>

\* var outer = 1; var far = 1;
\* { var inner = 2; outer = 2; { var deep = 3; far = 3; outer = 4; } }
P_BlockNested ==
    << Stmt_Var(Ident("outer"), Some(Num(1))),
       Stmt_Var(Ident("far"), Some(Num(1))),
       Stmt_Block(<< Stmt_Var(Ident("inner"), Some(Num(2))),
                     Stmt_Expr(Expr_Assign(Ident("outer"), Num(2))),
                     Stmt_Block(<< Stmt_Var(Ident("deep"), Some(Num(3))),
                                   Stmt_Expr(Expr_Assign(Ident("far"), Num(3))),
                                   Stmt_Expr(Expr_Assign(Ident("outer"), Num(4))) >>) >>) >>

\* fun nop() {} var top = 1; { var local = 2; top = 2; nop(); }
P_BlockCalls ==
    << Stmt_Function(Ident("nop"), <<>>, <<>>),
       Stmt_Var(Ident("top"), Some(Num(1))),
       Stmt_Block(<< Stmt_Var(Ident("local"), Some(Num(2))),
                     Stmt_Expr(Expr_Assign(Ident("top"), Num(2))),
                     Stmt_Expr(CallOf("nop", <<>>)) >>) >>

\* fun fc(n) { if (n <= 1) return 1; return fc(n - 1) * n; } print fc(<k>);
P_FactCallFirst(k) ==
    << Stmt_Function(Ident("fc"), << Ident("n") >>,
           << Stmt_If(Expr_Binary(VarRef("n"), Op("LessEqual", "<="), Num(1)),
                      Stmt_Return(ReturnKw, Some(Num(1))), None),
              Stmt_Return(ReturnKw,
                  Some(Expr_Binary(
                           CallOf("fc", << Expr_Binary(VarRef("n"), Op("Minus", "-"),
                                                        Num(1)) >>),
                           Op("Star", "*"), VarRef("n")))) >>),
       Stmt_Print(CallOf("fc", << Num(k) >>)) >>

\* var v = 1; fun second(v, w) { return w; } second(2, 3); print v;
P_CallReturns ==
    << Stmt_Var(Ident("v"), Some(Num(1))),
       Stmt_Function(Ident("second"), << Ident("v"), Ident("w") >>,
           << Stmt_Return(ReturnKw, Some(VarRef("w"))) >>),
       Stmt_Expr(CallOf("second", << Num(2), Num(3) >>)),
       Stmt_Print(VarRef("v")) >>

\* var v = 1; fun ends(v, w) { var u = w; } ends(2, 3); print v;
P_CallEnds ==
    << Stmt_Var(Ident("v"), Some(Num(1))),
       Stmt_Function(Ident("ends"), << Ident("v"), Ident("w") >>,
           << Stmt_Var(Ident("u"), Some(VarRef("w"))) >>),
       Stmt_Expr(CallOf("ends", << Num(2), Num(3) >>)),
       Stmt_Print(VarRef("v")) >>

\* The first `n` of the arguments 1, 2, 3.
ArityArguments(n) == [i \in 1..n |-> Num(i)]

\* fun pair(first, second) { print first; print second; } pair(<1, .., n>);
P_Arity(n) ==
    << Stmt_Function(Ident("pair"), << Ident("first"), Ident("second") >>,
           << Stmt_Print(VarRef("first")), Stmt_Print(VarRef("second")) >>),
       Stmt_Expr(CallOf("pair", ArityArguments(n))) >>

\* The left operands of P_Logical, each with the value it evaluates to.
LogicalLefts ==
    << <<Expr_Literal(Nil), Nil>>,
       <<Expr_Literal(Bool(FALSE)), Bool(FALSE)>>,
       <<Expr_Literal(Bool(TRUE)), Bool(TRUE)>>,
       <<Num(0), Number(0)>>,
       <<Num(7), Number(7)>>,
       <<Str(""), String("")>>,
       <<Str("s"), String("s")>>,
       <<VarRef("clock"), Function(Clock_new)>> >>

LogicalOperators == << Op("Or", "or"), Op("And", "and") >>

ReturnValues == << Nil, Bool(FALSE), Number(3), String("s") >>

Programs ==
    << P_Var(1), P_Var(2), P_Assign, P_BlockOk, P_BlockError, P_BlockReturn,
       P_Closure, P_PrintUndefined, P_VarUndefined, P_IfUndefined,
       P_AssignUndefined, P_Return, P_CallError, P_NoReturn, P_Shadow, P_Clock,
       P_BinaryOrder, P_CallOrder, P_PrintOrder, P_StatementOrder, P_Class,
       P_BlockNested, P_BlockCalls, P_CallReturns, P_CallEnds >>
    \o [k \in 1..(MaxFact + 1) |-> P_FactCallFirst(k - 1)]
    \o [n \in 1..MaxArguments |-> P_Arity(n)]
    \o [k \in 1..(MaxFact + 1) |-> P_Fact(k - 1)]
    \o [i \in DOMAIN ReturnValues |-> P_DeepReturn(ReturnValues[i])]
    \o [i \in DOMAIN LogicalLefts |-> P_Logical(LogicalOperators[1], LogicalLefts[i][1])]
    \o [i \in DOMAIN LogicalLefts |-> P_Logical(LogicalOperators[2], LogicalLefts[i][1])]

(***************************************************************************)
(* Spec: one Interpreter, constructed by Interpreter::new, on which        *)
(* interpret is called with one program after another.                     *)
(***************************************************************************)
Init ==
    /\ environment = Interpreter_new.environment
    /\ prev = Interpreter_new.environment
    /\ program = <<>>
    /\ result = Ok(Unit)
    /\ output = <<>>
    /\ runs = 0

\* A panic ends the process: no call follows it.
Interpret(statements, now) ==
    /\ runs < MaxRuns
    /\ ~IsPanic(result)
    /\ LET x == Interpreter_interpret(
                    [environment |-> environment, stdout |-> <<>>, now |-> now],
                    statements)
       IN /\ environment' = x.i.environment
          /\ output' = x.i.stdout
          /\ result' = x.r
    /\ prev' = environment
    /\ program' = statements
    /\ runs' = runs + 1

Next == \E i \in DOMAIN Programs, now \in 1..MaxClock : Interpret(Programs[i], now)

Spec == Init /\ [][Next]_vars

(***************************************************************************)
(* Claims about the Interpreter, checked under Spec.                       *)
(***************************************************************************)
IsBlockProgram(statements) == Len(statements) = 1 /\ statements[1].s = "Block"

\* C1: after a Block statement is executed the interpreter's current
\* environment is again the scope that was current before the block (the
\* same depth of the chain, the same names in the current scope), on every
\* exit path: normal completion, runtime error, return unwind.
C1_BlockRestoresEnvironment ==
    IsBlockProgram(program)
        => /\ Depth(environment) = Depth(prev)
           /\ DOMAIN environment.values = DOMAIN prev.values

\* C2: the free names of a function body resolve in the environment in which
\* the function was declared: show(), declared where a is "global" and called
\* where a is shadowed by "local", prints "global".
C2_BodyResolvesInDeclarationEnvironment ==
    program = P_Closure => output = << "global" >>

\* C3: when the expression of a Print, of a Var initializer or of an If
\* condition raises UndefinedVariable("x"), interpret returns that error and
\* no later statement is executed (nothing is printed).
C3_ErrorInPrintVarIfIsReturned ==
    (program = P_PrintUndefined \/ program = P_VarUndefined \/ program = P_IfUndefined)
        => /\ result = Err("UndefinedVariable", "x")
           /\ output = <<>>

\* C4: evaluating Assign(q, 1) when no scope defines q yields
\* UndefinedVariable(q), and no binding is created or changed.
C4_AssignUndefinedIsError ==
    program = P_AssignUndefined
        => /\ result = Err("UndefinedVariable", "q")
           /\ environment = prev

\* C5: interpret never returns the internal Return unwind.
C5_ReturnNeverLeaks == ~IsErr(result, "Return")

\* C6: a runtime error raised in the body of a called function is returned by
\* interpret, and the statements after the call are not executed.
C6_ErrorInCalleeIsReturned ==
    program = P_CallError
        => /\ result = Err("NumberExpectedAfterMinus", 1)
           /\ output = <<>>

RECURSIVE Factorial(_)
Factorial(n) == IF n <= 1 THEN 1 ELSE n * Factorial(n - 1)

\* C7: a `return e` at any block-nesting depth of a function body ends the
\* invocation and the call yields the value of e; a body that finishes
\* without return yields nil; the recursive factorial f(k) yields k! for
\* every k in 0..MaxFact.
C7_ReturnYieldsValue ==
    /\ \A k \in 0..MaxFact :
          program = P_Fact(k) =>
              result = Ok(Unit) /\ output = << Number_fmt(Factorial(k)) >>
    /\ \A i \in DOMAIN ReturnValues :
          program = P_DeepReturn(ReturnValues[i]) =>
              result = Ok(Unit) /\ output = << Value_fmt(ReturnValues[i]) >>
    /\ program = P_NoReturn => result = Ok(Unit) /\ output = << "nil" >>

\* print f(5) printed 120.
C7_Witness == program = P_Fact(5) /\ output = << "120" >>

\* C10: `l or b` yields the value of l without evaluating b when l is truthy,
\* `l and b` yields the value of l without evaluating b when l is falsy, and
\* otherwise both yield the value of b.  Here b is (a = 1) with a = 0 before,
\* and the result is bound to r.
C10_LogicalShortCircuits ==
    \A o \in DOMAIN LogicalOperators, i \in DOMAIN LogicalLefts :
        program = P_Logical(LogicalOperators[o], LogicalLefts[i][1]) =>
            LET left == LogicalLefts[i][2]
                falsy == left = Nil \/ left = Bool(FALSE)
                decided == IF LogicalOperators[o].token_type = "Or"
                           THEN ~falsy ELSE falsy
            IN IF decided
               THEN /\ environment.values["r"] = left
                    /\ environment.values["a"] = Number(0)
               ELSE /\ environment.values["r"] = Number(1)
                    /\ environment.values["a"] = Number(1)

\* `0 or (a = 1)` yielded 0 and left a unchanged: the number 0 is truthy.
C10_Witness ==
    /\ program = P_Logical(LogicalOperators[1], Num(0))
    /\ environment.values["r"] = Number(0)
    /\ environment.values["a"] = Number(0)

\* The example of C9 run by the interpreter:
\* var a = 1; { var a = 2; print a; } print a;  prints 2, then 1.
ShadowExamplePrints2Then1 == program = P_Shadow => output = << "2", "1" >>

\* C11: evaluation is left to right and side effects of an earlier part are
\* seen by the later parts.  A Binary evaluates its left operand before its
\* right one: with a = 1, (a = a + 1) + (a = a * 3) is 2 + 6 and leaves a = 6.
\* A Call evaluates the callee, then the arguments in order, then runs the
\* body: (h = f)(h, a = a + 1, a = a * 3) passes the function, 2 and 6 and the
\* body reads a = 6.  The prints of p(1) - p(2) come in the order 1, 2 before
\* the difference, and statements run in list order.
C11_EvaluationIsLeftToRight ==
    /\ program = P_BinaryOrder => output = << "8", "6" >>
    /\ program = P_CallOrder =>
           output = << "<LoxCallable>", "2", "6", "6" >>
    /\ program = P_PrintOrder => output = << "1", "2", "-1" >>
    /\ program = P_StatementOrder => output = << "1", "2", "3" >>

C11_Witness ==
    /\ program = P_CallOrder
    /\ Len(output) = 4
    /\ output[1] = "<LoxCallable>"
    /\ output[2] = "2"
    /\ output[3] = "6"

\* C14: executing a Class(name, methods) statement defines name in the
\* current environment, so that a later lookup of name succeeds instead of
\* raising UndefinedVariable: `class A {} A;` ends without an error and A is
\* visible afterwards.
C14_ClassDefinesName ==
    program = P_Class => (result.ok /\ "A" \in Visible(environment))

\* The programs that end with a Block, each with the outer variables the
\* block assigns (name, last value assigned) and the names it defines.
BlockFrames ==
    << [program |-> P_BlockNested,
        assigned |-> << <<"outer", Number(4)>>, <<"far", Number(3)>> >>,
        locals |-> { "inner", "deep" }],
       [program |-> P_BlockCalls,
        assigned |-> << <<"top", Number(2)>> >>,
        locals |-> { "local" }] >>

\* C26: when a Block statement completes normally, every assignment made
\* inside it to a variable of an enclosing scope (also from a nested block)
\* is visible after the block, and no name defined inside the block is
\* visible after it.
C26_BlockFrameEffect ==
    \A i \in DOMAIN BlockFrames :
        (program = BlockFrames[i].program /\ result.ok)
            => /\ \A j \in DOMAIN BlockFrames[i].assigned :
                      Environment_get(environment, BlockFrames[i].assigned[j][1])
                          = Ok(BlockFrames[i].assigned[j][2])
               /\ \A name \in BlockFrames[i].locals \ Visible(prev) :
                      name \notin Visible(environment)

\* For the block that calls no function the frame effect holds, and the
\* scope depth is the one before the block.
BlockFrameEffect_CallFree ==
    (program = P_BlockNested /\ result.ok)
        => /\ Environment_get(environment, "outer") = Ok(Number(4))
           /\ Environment_get(environment, "far") = Ok(Number(3))
           /\ \A name \in { "inner", "deep" } \ Visible(prev) :
                  name \notin Visible(environment)
           /\ Depth(environment) = Depth(prev)

\* C27: after a call of a user function has completed, with or without
\* `return`, the current environment is the scope that was current before
\* the call: the depth of the chain is unchanged, the parameters and locals
\* of the callee are not visible, a caller variable named like a parameter
\* reads the caller's value again, and fc(k) with `fc(n - 1) * n` yields k!.
C27_CallRestoresEnvironment ==
    /\ (program = P_CallReturns \/ program = P_CallEnds)
          => /\ Depth(environment) = Depth(prev)
             /\ \A name \in { "w", "u" } \ Visible(prev) :
                    name \notin Visible(environment)
             /\ output = << "1" >>
    /\ \A k \in 0..MaxFact :
          program = P_FactCallFirst(k) => output = << Number_fmt(Factorial(k)) >>

\* C28: a call of a user function never aborts the interpreter, whatever
\* the number of arguments: with as many arguments as parameters, parameter
\* i is bound to argument i (pair(1, 2) prints 1 and 2); with fewer or more
\* arguments the call yields a value or a runtime error, not a panic.
C28_CallNeverAborts ==
    \A n \in 1..MaxArguments :
        program = P_Arity(n)
            => /\ ~IsPanic(result)
               /\ n = 2 => (result.ok /\ output = << "1", "2" >>)

(***************************************************************************)
(* Claims about Environment, checked under SpecEnv.                        *)
(***************************************************************************)

\* The number of steps from `env` up to the nearest scope that defines `name`.
Nearest(env, name) ==
    CHOOSE k \in 0..(Depth(env) - 1) :
        /\ name \in DOMAIN Ancestor(env, k).values
        /\ \A j \in 0..(k - 1) : name \notin DOMAIN Ancestor(env, j).values

\* C8: for a name defined in the environment or in one of its ancestors,
\* assign(name, v) returns the value the name had before, and a following
\* get(name) on the same environment returns v, after any sequence of
\* define, assign, new_with_parent and take_parent operations.
C8_AssignReturnsPreviousAndGetReturnsNew ==
    (program.op = "assign" /\ program.name \in Visible(prev))
        => /\ result = Some(Ancestor(prev, Nearest(prev, program.name)).values[program.name])
           /\ Environment_get(environment, program.name) = Ok(program.value)

\* An assign reached a definition in the parent scope (the unit test
\* assign_value_to_var_from_parent_environment).
C8_Witness ==
    /\ program.op = "assign"
    /\ program.name \notin DOMAIN prev.values
    /\ program.name \in Visible(prev)
    /\ result = Some(String("value"))
    /\ program.value = String("new value")
    /\ Environment_get(environment, program.name) = Ok(String("new value"))

\* C9: get(name) returns the binding of the nearest scope on the chain that
\* defines name (UndefinedVariable if none does); define(name, value) inserts
\* or overwrites in the current scope only and leaves every ancestor, and
\* every other binding of the current scope, unchanged.
C9_GetNearestDefineCurrentOnly ==
    /\ program.op = "get" =>
          /\ environment = prev
          /\ IF program.name \in Visible(prev)
             THEN result = Ok(Ancestor(prev, Nearest(prev, program.name)).values[program.name])
             ELSE result = Err("UndefinedVariable", program.name)
    /\ program.op = "define" =>
          /\ environment.parent = prev.parent
          /\ DOMAIN environment.values = DOMAIN prev.values \cup {program.name}
          /\ environment.values[program.name] = program.value
          /\ \A n \in DOMAIN prev.values \ {program.name} :
                environment.values[n] = prev.values[n]

\* A define shadowed a name that an ancestor binds to another value, and the
\* ancestor still has its binding.
C9_Witness ==
    /\ program.op = "define"
    /\ prev.parent # None
    /\ program.name \notin DOMAIN prev.values
    /\ program.name \in Visible(prev)
    /\ Environment_get(environment, program.name) = Ok(program.value)
    /\ Environment_get(environment.parent[1], program.name) # Ok(program.value)

(***************************************************************************)
(* SpecExpr: one expression evaluated by a new Interpreter, as the unit    *)
(* tests of interpreter.rs do (Interpreter::new().evaluate(&expr)).        *)
(***************************************************************************)
\* The operands: the expression, the value it evaluates to, and whether the
\* language counts that value as true.
ExprOperands ==
    << <<Expr_Literal(Nil), Nil, FALSE>>,
       <<Expr_Literal(Bool(FALSE)), Bool(FALSE), FALSE>>,
       <<Expr_Literal(Bool(TRUE)), Bool(TRUE), TRUE>>,
       <<Num(0), Number(0), TRUE>>,
       <<Num(2), Number(2), TRUE>>,
       <<Num(3), Number(3), TRUE>>,
       <<Str(""), String(""), TRUE>>,
       <<Str("s"), String("s"), TRUE>>,
       <<VarRef("clock"), Function(Clock_new), TRUE>> >>

\* The ten binary operators of the grammar, and `!`, which the parser never
\* puts into a Binary.
BinaryOperators ==
    << Op("Plus", "+"), Op("Minus", "-"), Op("Star", "*"), Op("Slash", "/"),
       Op("Greater", ">"), Op("GreaterEqual", ">="), Op("Less", "<"),
       Op("LessEqual", "<="), Op("EqualEqual", "=="), Op("BangEqual", "!="),
       Op("Bang", "!") >>

UnaryOperators == << Op("Bang", "!"), Op("Minus", "-") >>

InitExpr ==
    /\ environment = Interpreter_new.environment
    /\ prev = Interpreter_new.environment
    /\ program = <<>>
    /\ result = Ok(Unit)
    /\ output = <<>>
    /\ runs = 0

Evaluate(expr, now) ==
    /\ runs = 0
    /\ LET x == Interpreter_evaluate(
                    [environment |-> environment, stdout |-> <<>>, now |-> now],
                    expr)
       IN /\ environment' = x.i.environment
          /\ output' = x.i.stdout
          /\ result' = x.r
    /\ prev' = environment
    /\ program' = expr
    /\ runs' = 1

EvaluateBinary ==
    \E i \in DOMAIN ExprOperands, k \in DOMAIN BinaryOperators, j \in DOMAIN ExprOperands :
        Evaluate(Expr_Binary(ExprOperands[i][1], BinaryOperators[k], ExprOperands[j][1]), 1)

EvaluateUnary ==
    \E k \in DOMAIN UnaryOperators, i \in DOMAIN ExprOperands :
        Evaluate(Expr_Unary(UnaryOperators[k], ExprOperands[i][1]), 1)

EvaluateDoubleBang ==
    \E i \in DOMAIN ExprOperands :
        Evaluate(Expr_Unary(Op("Bang", "!"),
                            Expr_Unary(Op("Bang", "!"), ExprOperands[i][1])), 1)

NextExpr == EvaluateBinary \/ EvaluateUnary \/ EvaluateDoubleBang

SpecExpr == InitExpr /\ [][NextExpr]_vars

(***************************************************************************)
(* Claims about expressions, checked under SpecExpr.                       *)
(***************************************************************************)
\* What the language definition gives for l operator r.
DispatchHolds(l, operator, r, res) ==
    LET op == operator.token_type
        invalid == res = Err("InvalidOperator", operator)
    IN CASE l[1] # r[1] ->
              (CASE op = "EqualEqual" -> res = Ok(Bool(FALSE))
                 [] op = "BangEqual" -> res = Ok(Bool(TRUE))
                 [] OTHER -> invalid)
         [] l[1] = "Bool" \/ l[1] = "Nil" ->
              (CASE op = "EqualEqual" -> res = Ok(Bool(l = r))
                 [] op = "BangEqual" -> res = Ok(Bool(l # r))
                 [] OTHER -> invalid)
         [] l[1] = "String" ->
              (CASE op = "Plus" -> res = Ok(String(l[2] \o r[2]))
                 [] op = "EqualEqual" -> res = Ok(Bool(l = r))
                 [] op = "BangEqual" -> res = Ok(Bool(l # r))
                 [] OTHER -> invalid)
         [] l[1] = "Number" ->
              (CASE op = "Plus" -> res = Ok(Number(l[2] + r[2]))
                 [] op = "Minus" -> res = Ok(Number(l[2] - r[2]))
                 [] op = "Star" -> res = Ok(Number(l[2] * r[2]))
                 [] op = "Slash" -> res.ok /\ res.val[1] = "Number"
                 [] op = "Greater" -> res = Ok(Bool(l[2] > r[2]))
                 [] op = "GreaterEqual" -> res = Ok(Bool(l[2] >= r[2]))
                 [] op = "Less" -> res = Ok(Bool(l[2] < r[2]))
                 [] op = "LessEqual" -> res = Ok(Bool(l[2] <= r[2]))
                 [] op = "EqualEqual" -> res = Ok(Bool(l[2] = r[2]))
                 [] op = "BangEqual" -> res = Ok(Bool(l[2] # r[2]))
                 [] OTHER -> invalid)
         [] OTHER -> TRUE

\* C12: binary operators dispatch on the operand types.  Operands of two
\* different variants: == is false, != is true, every other operator is
\* InvalidOperator.  Two bools or two nils: only == and !=.  Two strings:
\* + (concatenation), == and !=.  Two numbers: every arithmetic, comparison
\* and equality operator gives a number or a bool.
C12_BinaryOperatorsDispatchOnTypes ==
    \A i \in DOMAIN ExprOperands, k \in DOMAIN BinaryOperators, j \in DOMAIN ExprOperands :
        program = Expr_Binary(ExprOperands[i][1], BinaryOperators[k], ExprOperands[j][1])
        => DispatchHolds(ExprOperands[i][2], BinaryOperators[k], ExprOperands[j][2], result)

\* 3 + "s" is InvalidOperator.
C12_Witness ==
    /\ program = Expr_Binary(Num(3), Op("Plus", "+"), Str("s"))
    /\ result = Err("InvalidOperator", Op("Plus", "+"))

\* C13: only nil and false are falsy; !x is Bool(not truthy(x)) for a value
\* of any type, and !!v is Bool(truthy(v)).
C13_OnlyNilAndFalseAreFalsy ==
    \A i \in DOMAIN ExprOperands :
        /\ program = Expr_Unary(Op("Bang", "!"), ExprOperands[i][1])
           => result = Ok(Bool(~ExprOperands[i][3]))
        /\ program = Expr_Unary(Op("Bang", "!"),
                                Expr_Unary(Op("Bang", "!"), ExprOperands[i][1]))
           => result = Ok(Bool(ExprOperands[i][3]))

\* !!0 is true.
C13_Witness ==
    /\ program = Expr_Unary(Op("Bang", "!"), Expr_Unary(Op("Bang", "!"), Num(0)))
    /\ result = Ok(Bool(TRUE))

(***************************************************************************)
(* Scanner (scanner.rs).  A &str is the sequence of its chars, each char   *)
(* a string; offsets and lengths are in bytes, as in Rust, and a slice at  *)
(* an offset inside a char panics.                                         *)
(***************************************************************************)
AsciiDigits == {"0", "1", "2", "3", "4", "5", "6", "7", "8", "9"}

AsciiAlphabetic ==
    {"a", "b", "c", "d", "e", "f", "g", "h", "i", "j", "k", "l", "m", "n", "o",
     "p", "q", "r", "s", "t", "u", "v", "w", "x", "y", "z",
     "A", "B", "C", "D", "E", "F", "G", "H", "I", "J", "K", "L", "M", "N", "O",
     "P", "Q", "R", "S", "T", "U", "V", "W", "X", "Y", "Z"}

\* The one char of the model that is not ASCII: two bytes in UTF-8.
EAcute == "e-acute"

\* char::len_utf8
CharLen(c) == IF c = EAcute THEN 2 ELSE 1

\* str::len
RECURSIVE Str_len(_)
Str_len(source) ==
    IF source = <<>> THEN 0 ELSE CharLen(Head(source)) + Str_len(Tail(source))

\* &source[n..]
RECURSIVE Str_from(_, _)
Str_from(source, n) ==
    IF n = 0 THEN Ok(source)
    ELSE IF source = <<>> THEN Err("Panic", "byte index out of bounds")
    ELSE IF CharLen(Head(source)) > n
         THEN Err("Panic", "byte index is not a char boundary")
         ELSE Str_from(Tail(source), n - CharLen(Head(source)))

\* &source[..n], for an n that find() returned
RECURSIVE Str_to(_, _)
Str_to(source, n) ==
    IF n <= 0 \/ source = <<>> THEN <<>>
    ELSE << Head(source) >> \o Str_to(Tail(source), n - CharLen(Head(source)))

\* str::find(char): the byte offset of the first occurrence
RECURSIVE Str_find(_, _)
Str_find(source, c) ==
    IF source = <<>> THEN None
    ELSE IF Head(source) = c THEN Some(0)
    ELSE LET r == Str_find(Tail(source), c)
         IN IF r = None THEN None ELSE Some(CharLen(Head(source)) + r[1])

\* str::matches(char).count()
RECURSIVE Str_matches_count(_, _)
Str_matches_count(source, c) ==
    IF source = <<>> THEN 0
    ELSE (IF Head(source) = c THEN 1 ELSE 0) + Str_matches_count(Tail(source), c)

\* chars().take_while(|c| c in set).count()
RECURSIVE Take_while_count(_, _)
Take_while_count(source, set) ==
    IF source = <<>> \/ Head(source) \notin set THEN 0
    ELSE 1 + Take_while_count(Tail(source), set)

\* to_string / collect::<String>()
RECURSIVE Str_to_string(_)
Str_to_string(source) ==
    IF source = <<>> THEN "" ELSE Head(source) \o Str_to_string(Tail(source))

\* chars().nth(1)
Str_look_ahead(source) == IF Len(source) >= 2 THEN Some(source[2]) ELSE None

RECURSIVE Gcd(_, _)
Gcd(a, b) == IF b = 0 THEN a ELSE Gcd(b, a % b)

RECURSIVE Decimal(_, _)
Decimal(digits, acc) ==
    IF digits = <<>> THEN acc
    ELSE Decimal(Tail(digits),
                 10 * acc + (CHOOSE d \in 0..9 : Digit(d) = Head(digits)))

RECURSIVE Pow10(_)
Pow10(n) == IF n = 0 THEN 1 ELSE 10 * Pow10(n - 1)

\* str::parse::<f64> of digits ['.' digits]: the number as a fraction in
\* lowest terms <<numerator, denominator>>.
F64_parse(number) ==
    LET whole == Take_while_count(number, AsciiDigits)
        fraction == IF whole < Len(number)
                    THEN SubSeq(number, whole + 2, Len(number)) ELSE <<>>
        numerator == Decimal(SubSeq(number, 1, whole) \o fraction, 0)
        denominator == Pow10(Len(fraction))
        g == Gcd(numerator, denominator)
    IN << numerator \div g, denominator \div g >>

Literal_Number(n) == << "Number", n >>
Literal_String(t) == << "String", t >>

\* Token::new as the scanner calls it.
Token_new(token_type, lexeme, literal, line) ==
    [token_type |-> token_type, lexeme |-> lexeme, literal |-> literal, line |-> line]

\* Token::len: the length of the lexeme (of a number or an identifier, ASCII)
Token_len(self) == Len(self.lexeme)

TokenType_get_type_for_keyword(keyword) ==
    CASE keyword = "and" -> Some("And")
      [] keyword = "class" -> Some("Class")
      [] keyword = "else" -> Some("Else")
      [] keyword = "false" -> Some("False")
      [] keyword = "fun" -> Some("Fun")
      [] keyword = "for" -> Some("For")
      [] keyword = "if" -> Some("If")
      [] keyword = "nil" -> Some("Nil")
      [] keyword = "or" -> Some("Or")
      [] keyword = "print" -> Some("Print")
      [] keyword = "return" -> Some("Return")
      [] keyword = "super" -> Some("Super")
      [] keyword = "this" -> Some("This")
      [] keyword = "true" -> Some("True")
      [] keyword = "var" -> Some("Var")
      [] keyword = "while" -> Some("While")
      [] OTHER -> None

Reporter_new == [errors |-> <<>>]
Reporter_get_errors(self) == self.errors
Reporter_has_errors(self) == self.errors # <<>>
Reporter_report_error(self, error) == [self EXCEPT !.errors = Append(@, error)]

Scanner_scan_identifier(source, line) ==
    LET identifier == Str_to_string(
            SubSeq(source, 1, Take_while_count(source, AsciiAlphabetic \cup {"_"})))
        keyword_type == TokenType_get_type_for_keyword(identifier)
        token_type == IF keyword_type # None THEN keyword_type[1] ELSE "Identifier"
    IN Token_new(token_type, identifier, None, line)

Scanner_scan_number(source, line) ==
    LET digits == Take_while_count(source, AsciiDigits)
        rest == SubSeq(source, digits + 1, Len(source))
        n == IF rest # <<>> /\ Head(rest) = "."
             THEN Take_while_count(Tail(rest), AsciiDigits) ELSE 0
        munched_chars == IF n > 0 THEN digits + 1 + n ELSE digits
        number == SubSeq(source, 1, munched_chars)
    IN Token_new("Number", Str_to_string(number),
                 Some(Literal_Number(F64_parse(number))), line)

Scanner_string_linebreaks_ignored(source, close_position) == 0

\* line += source[..close_position].matches('\n').count()
Scanner_string_linebreaks(source, close_position) ==
    Str_matches_count(Str_to(source, close_position), "\n")

\* The token types of the chars that are a token by themselves.
Scanner_single_char ==
    [c \in {"(", ")", "{", "}", ",", ".", "-", "+", ";", "*"} |->
        CASE c = "(" -> "LeftParen" [] c = ")" -> "RightParen"
          [] c = "{" -> "LeftBrace" [] c = "}" -> "RightBrace"
          [] c = "," -> "Comma" [] c = "." -> "Dot" [] c = "-" -> "Minus"
          [] c = "+" -> "Plus" [] c = ";" -> "Semicolon" [] c = "*" -> "Star"]

\* The token types of the chars that are a token with and without a `=`.
Scanner_one_or_two_char ==
    [c \in {"!", "=", "<", ">"} |->
        CASE c = "!" -> << "Bang", "BangEqual" >>
          [] c = "=" -> << "Equal", "EqualEqual" >>
          [] c = "<" -> << "Less", "LessEqual" >>
          [] c = ">" -> << "Greater", "GreaterEqual" >>]

\* The match on c of scan_token: the bytes munched, the tokens, the line
\* and the reporter after it.
Scanner_match(source, tokens, line, reporter) ==
    LET c == Head(source)
        look_ahead == Str_look_ahead(source)
        step(munched_chars, ts, l, rep) ==
            [munched_chars |-> munched_chars, tokens |-> ts, line |-> l, reporter |-> rep]
    IN CASE c \in DOMAIN Scanner_single_char ->
              step(1, Append(tokens, Token_new(Scanner_single_char[c], c, None, line)),
                   line, reporter)
         [] c = "/" ->
              IF look_ahead = Some("/")
              THEN LET linebreak_position == Str_find(source, "\n")
                   IN step(IF linebreak_position = None THEN Str_len(source)
                           ELSE linebreak_position[1],
                           tokens, line, reporter)
              ELSE step(1, Append(tokens, Token_new("Slash", c, None, line)),
                        line, reporter)
         [] c \in DOMAIN Scanner_one_or_two_char ->
              IF look_ahead = Some("=")
              THEN step(2, Append(tokens, Token_new(Scanner_one_or_two_char[c][2],
                                                    c \o "=", None, line)),
                        line, reporter)
              ELSE step(1, Append(tokens, Token_new(Scanner_one_or_two_char[c][1],
                                                    c, None, line)),
                        line, reporter)
         [] c \in {" ", "\r", "\t"} -> step(1, tokens, line, reporter)
         [] c = "\n" -> step(1, tokens, line + 1, reporter)
         [] c = "\"" ->
              LET position == Str_find(Tail(source), "\"")
              IN IF position # None
                 THEN LET close_position == position[1] + 1
                      IN step(close_position + 1,
                              Append(tokens, Token_new("String",
                                  Str_to_string(Str_to(source, close_position + 1)),
                                  Some(Literal_String(Str_to_string(
                                      Str_to(Tail(source), close_position - 1)))),
                                  line)),
                              line + Scanner_string_linebreaks(source, close_position),
                              reporter)
                 ELSE step(Str_len(source), tokens, line,
                           Reporter_report_error(reporter,
                               "Unterminated string starting on line " \o Number_fmt(line)))
         [] c \in AsciiDigits ->
              LET token == Scanner_scan_number(source, line)
              IN step(Token_len(token), Append(tokens, token), line, reporter)
         [] c \in AsciiAlphabetic \cup {"_"} ->
              LET token == Scanner_scan_identifier(source, line)
              IN step(Token_len(token), Append(tokens, token), line, reporter)
         [] OTHER ->
              step(1, tokens, line,
                   Reporter_report_error(reporter,
                       "Unexpected character " \o c \o " on line " \o Number_fmt(line)))

\* scan_token: the returned Vec<Token> (or the panic) and the reporter.
RECURSIVE Scanner_scan_token(_, _, _, _)
Scanner_scan_token(source, tokens, line, reporter) ==
    IF source = <<>>
    THEN [r |-> Ok(Append(tokens, Token_new("Eof", "", None, line))),
          reporter |-> reporter]
    ELSE LET m == Scanner_match(source, tokens, line, reporter)
             rest == Str_from(source, m.munched_chars)
         IN IF ~rest.ok THEN [r |-> rest, reporter |-> m.reporter]
            ELSE Scanner_scan_token(rest.val, m.tokens, m.line, m.reporter)

Scanner_scan_tokens(source, reporter) == Scanner_scan_token(source, <<>>, 1, reporter)

(***************************************************************************)
(* SpecScan: one source scanned by Scanner::scan_tokens with a new         *)
(* Reporter, as the unit tests of scanner.rs do.  `program` is the source, *)
(* `result` the returned tokens, `output` the errors of the reporter.      *)
(***************************************************************************)
ScanAlphabet == {"1", ".", "\"", "\n", "/", "a", "@", ";", " ", "=", EAcute}

\* The sources of n chars.
Sources(n) == [1..n -> ScanAlphabet]

\* var a = "s";      a or 12.50 >= x_y      // c      !(1 < 2)
SampleSources ==
    << << "v", "a", "r", " ", "a", " ", "=", " ", "\"", "s", "\"", ";" >>,
       << "a", " ", "o", "r", " ", "1", "2", ".", "5", "0", " ", ">", "=", " ",
          "x", "_", "y" >>,
       << "/", "/", " ", "c" >>,
       << "!", "(", "1", "\t", "<", "\r", "2", ")" >> >>

InitScan ==
    /\ environment = Environment_new
    /\ prev = Environment_new
    /\ program = <<>>
    /\ result = Ok(<<>>)
    /\ output = Reporter_get_errors(Reporter_new)
    /\ runs = 0

Scan(source) ==
    /\ LET x == Scanner_scan_tokens(source, Reporter_new)
       IN /\ result' = x.r
          /\ output' = Reporter_get_errors(x.reporter)
    /\ program' = source
    /\ runs' = 1
    /\ UNCHANGED << environment, prev >>

\* One source is scanned in the life of the process.
ScanSource ==
    /\ runs = 0
    /\ \E n \in 0..MaxSourceLen : \E source \in Sources(n) : Scan(source)

ScanSample ==
    /\ runs = 0
    /\ \E i \in DOMAIN SampleSources : Scan(SampleSources[i])

NextScan == ScanSource \/ ScanSample

SpecScan == InitScan /\ [][NextScan]_vars

(***************************************************************************)
(* Claims about the Scanner, checked under SpecScan.                       *)
(***************************************************************************)
\* The scan has run and neither reported an error nor panicked.
ScanSucceeded == runs = 1 /\ result.ok /\ output = <<>>

\* C15: every successful scan returns a token list with exactly one Eof, as
\* its last element, and the line of that Eof is 1 plus the number of
\* newlines in the source, those inside string literals and those that end
\* a // comment included.
C15_OneEofOnLastLine ==
    ScanSucceeded =>
        LET tokens == result.val
        IN /\ tokens # <<>>
           /\ \A i \in DOMAIN tokens :
                 (tokens[i].token_type = "Eof") = (i = Len(tokens))
           /\ tokens[Len(tokens)].line = 1 + Str_matches_count(program, "\n")

\* "<newline>"<newline> : the Eof is on line 3.
C15_Witness ==
    /\ ScanSucceeded
    /\ program = << "\"", "\n", "\"", "\n" >>
    /\ Len(result.val) = 2
    /\ result.val[2].token_type = "Eof"
    /\ result.val[2].line = 3

\* C16: scanning is abortive.  For every source at most one scan error is
\* reported, and no token is produced from text after the failing position:
\* a source that begins with the failing char gives no token but (at most)
\* the Eof.
C16_ScanIsAbortive ==
    runs = 1 =>
        /\ Len(output) <= 1
        /\ (program # <<>> /\ Head(program) = "@" /\ result.ok) =>
               \A i \in DOMAIN result.val : result.val[i].token_type = "Eof"

\* The digits, the `.` and the char after it of a source that is a number
\* literal ending with a dot.
NumberEndsWithDot(source) ==
    LET digits == Take_while_count(source, AsciiDigits)
    IN /\ digits > 0
       /\ Len(source) > digits
       /\ source[digits + 1] = "."
       /\ (Len(source) > digits + 1 => source[digits + 2] \notin AsciiDigits)

\* C17: a number literal whose digits are followed by a `.` that is not
\* followed by a digit (`1.`, `1.a`) is a scan error, reported with the line
\* of the literal, and is not scanned as a Number token followed by a Dot
\* token.
C17_NumberEndingWithDotIsAnError ==
    (runs = 1 /\ NumberEndsWithDot(program)) =>
        /\ output # <<>>
        /\ result.ok =>
               ~(/\ Len(result.val) >= 2
                 /\ result.val[1].token_type = "Number"
                 /\ result.val[2].token_type = "Dot")

\* The chars of ScanAlphabet that start no token and are not whitespace.
UnexpectedChars == { "@", EAcute }

\* The line of the i-th char of a source without string literals.
LineOf(source, i) == 1 + Str_matches_count(SubSeq(source, 1, i - 1), "\n")

\* C29: for every char of the source that starts no token and is not
\* whitespace, a char of more than one byte included, the scanner reports
\* "Unexpected character <c> on line <l>" with that char and its line (here
\* for the sources without string literals and comments), and the scan never
\* panics by slicing the source inside a multi-byte char.
C29_UnexpectedCharIsReportedWithoutPanic ==
    runs = 1 =>
        /\ ~IsPanic(result)
        /\ (\A j \in DOMAIN program : program[j] \notin { "\"", "/" }) =>
               \A i \in DOMAIN program :
                   program[i] \in UnexpectedChars =>
                       \E k \in DOMAIN output :
                           output[k] = "Unexpected character " \o program[i]
                                           \o " on line "
                                           \o Number_fmt(LineOf(program, i))

\* For the unexpected chars of one byte the report is as claimed.
UnexpectedAsciiIsReported ==
    (runs = 1 /\ \A j \in DOMAIN program : program[j] \notin { "\"", "/", EAcute }) =>
        /\ ~IsPanic(result)
        /\ \A i \in DOMAIN program :
               program[i] = "@" =>
                   \E k \in DOMAIN output :
                       output[k] = "Unexpected character @ on line "
                                       \o Number_fmt(LineOf(program, i))

(***************************************************************************)
(* Parser (parser.rs).  `self` is [tokens, current]; every operator that   *)
(* takes &mut self returns Ret(self', r).  A token of a type with a value, *)
(* TokenType::Number(n) or TokenType::String(s), carries it as `payload`;  *)
(* the name of TokenType::Identifier(name) is the lexeme.  A ParseError is *)
(* Err(variant, token) or Err(variant, <<token, kind>>).                   *)
(***************************************************************************)
\* Token::new(TokenType::Number(number), line)
Token_Number(number, line) ==
    [token_type |-> "Number", payload |-> number, lexeme |-> Number_fmt(number),
     line |-> line]

\* Token::new(TokenType::String(string), line)
Token_String(string, line) ==
    [token_type |-> "String", payload |-> string,
     lexeme |-> "\"" \o string \o "\"", line |-> line]

\* Besides tokens and current the parser of the model carries two logs of
\* its run: `declarations`, the cursor before and after every call of
\* declaration made by parse and its outcome, and `primary_at_end`, the token and outcome of
\* every call of primary made with the cursor at Eof.
Parser_new ==
    [tokens |-> <<>>, current |-> 0, declarations |-> <<>>, primary_at_end |-> <<>>]

Parser_peek(self) == self.tokens[self.current + 1]

\* What previous() gives at cursor 0, where `self.current - 1` panics: whoever
\* receives it panics.
Panicked == [token_type |-> "Panic", lexeme |-> "", line |-> 0]

Parser_previous_two_back(self) ==
    IF self.current < 2 THEN Panicked ELSE self.tokens[self.current - 1]

\* self.tokens[self.current - 1].clone(), the tokens being numbered from 0.
Parser_previous(self) ==
    IF self.current = 0 THEN Panicked ELSE self.tokens[self.current]

\* The token a ParseError carries.
ParseError_token(error) ==
    IF error.val[1] \in { "MissingName", "MissingParenAfterName", "MissingBraceBeforeBody" }
    THEN error.val[2][1]
    ELSE error.val[2]

\* The ParseError is built before the call that takes it: a panic while
\* building it is the outcome of the call.
Evaluated(error) == ParseError_token(error) # Panicked

Overflow == Err("Panic", "attempt to subtract with overflow")

Parser_is_at_end(self) == Parser_peek(self).token_type = "Eof"

Parser_advance(self) ==
    LET s == IF ~Parser_is_at_end(self) THEN [self EXCEPT !.current = @ + 1] ELSE self
    IN Ret(s, Parser_previous(s))

Parser_check(self, token_type) ==
    IF Parser_is_at_end(self) THEN FALSE
    ELSE Parser_peek(self).token_type = token_type

Parser_do_match(self, token_types) ==
    IF \E i \in DOMAIN token_types : Parser_check(self, token_types[i])
    THEN Ret(Parser_advance(self).i, TRUE)
    ELSE Ret(self, FALSE)

Parser_consume(self, token_type, error) ==
    IF ~Evaluated(error) THEN Ret(self, Overflow)
    ELSE IF Parser_check(self, token_type)
    THEN LET a == Parser_advance(self) IN Ret(a.i, Ok(a.r))
    ELSE Ret(self, error)

Parser_consume_identifier(self, error) ==
    IF ~Evaluated(error) THEN Ret(self, Overflow)
    ELSE IF Parser_peek(self).token_type = "Identifier"
    THEN LET a == Parser_advance(self) IN Ret(a.i, Ok(a.r))
    ELSE Ret(self, error)

\* The methods of the grammar call each other through self: self.expression()
\* is Parser_method(self, "expression", <<>>), and the arguments after self
\* are the third parameter.
RECURSIVE Parser_method(_, _, _)
RECURSIVE Parser_expression(_)
RECURSIVE Parser_class_methods(_, _)
RECURSIVE Parser_block_statements(_, _)
RECURSIVE Parser_call_loop(_, _)
RECURSIVE Parser_arguments(_, _)
RECURSIVE Parser_binary_loop(_, _, _)
RECURSIVE Parser_logical_loop(_, _, _)

\* The level of precedence below each level of binary and logical operators.
Parser_operand(self, level) ==
    CASE level = "or" -> Parser_method(self, "and", <<>>)
      [] level = "and" -> Parser_method(self, "equality", <<>>)
      [] level = "equality" -> Parser_method(self, "comparison", <<>>)
      [] level = "comparison" -> Parser_method(self, "term", <<>>)
      [] level = "term" -> Parser_method(self, "factor", <<>>)
      [] level = "factor" -> Parser_method(self, "unary", <<>>)

Parser_operators_term_with_factor(level) ==
    CASE level = "or" -> << "Or" >>
      [] level = "and" -> << "And" >>
      [] level = "equality" -> << "BangEqual", "EqualEqual" >>
      [] level = "comparison" -> << "Greater", "GreaterEqual", "Less", "LessEqual" >>
      [] level = "term" -> << "Minus", "Plus", "Slash", "Star" >>
      [] level = "factor" -> <<>>

\* The operators of each level.
Parser_operators(level) ==
    CASE level = "or" -> << "Or" >>
      [] level = "and" -> << "And" >>
      [] level = "equality" -> << "BangEqual", "EqualEqual" >>
      [] level = "comparison" -> << "Greater", "GreaterEqual", "Less", "LessEqual" >>
      [] level = "term" -> << "Minus", "Plus" >>
      [] level = "factor" -> << "Slash", "Star" >>

\* The operator ? of Rust: an Err is returned at once, and an Ok goes on with
\* the rest of the method.
Try(returned, rest(_)) == IF returned.r.ok THEN rest(returned) ELSE returned

Parser_var_declaration(self) ==
    Try(Parser_consume_identifier(
            self, Err("MissingVariableName", Parser_previous(self))),
        LAMBDA name :
    LET m == Parser_do_match(name.i, << "Equal" >>)
    IN
    Try(IF m.r THEN Parser_method(m.i, "expression", <<>>) ELSE Ret(m.i, Ok(None)),
        LAMBDA initializer :
    Try(Parser_consume(initializer.i, "Semicolon",
                       Err("MissingSemicolonAfterVariableDeclaration", name.r.val)),
        LAMBDA semicolon :
    Ret(semicolon.i,
        Ok(Stmt_Var(name.r.val, IF m.r THEN Some(initializer.r.val) ELSE None))))))

Parser_return_statement(self) ==
    LET keyword == Parser_previous(self)
        absent == Parser_check(self, "Semicolon")
    IN
    Try(IF absent THEN Ret(self, Ok(None))
        ELSE Parser_method(self, "expression", <<>>),
        LAMBDA value :
    Try(Parser_consume(value.i, "Semicolon",
                       Err("MissingSemicolonAfterReturnValue", keyword)),
        LAMBDA semicolon :
    Ret(semicolon.i,
        Ok(Stmt_Return(keyword, IF absent THEN None ELSE Some(value.r.val))))))

Parser_print_statement(self) ==
    Try(Parser_method(self, "expression", <<>>),
        LAMBDA expr :
    Try(Parser_consume(expr.i, "Semicolon",
                       Err("MissingSemicolonAfterValue", Parser_previous(expr.i))),
        LAMBDA semicolon :
    Ret(semicolon.i, Ok(Stmt_Print(expr.r.val)))))

Parser_expression_statement(self) ==
    Try(Parser_method(self, "expression", <<>>),
        LAMBDA expr :
    Try(Parser_consume(expr.i, "Semicolon",
                       Err("MissingSemicolonAfterValue", Parser_previous(expr.i))),
        LAMBDA semicolon :
    Ret(semicolon.i, Ok(Stmt_Expr(expr.r.val)))))

\* while !self.check(&TokenType::RightBrace) && !self.is_at_end() {
\*     methods.push(self.function("method")?); }
Parser_class_methods(self, methods) ==
    IF ~Parser_check(self, "RightBrace") /\ ~Parser_is_at_end(self)
    THEN Try(Parser_method(self, "function", << "method" >>),
             LAMBDA method :
             Parser_class_methods(method.i, Append(methods, method.r.val)))
    ELSE Ret(self, Ok(methods))

Parser_class_declaration(self) ==
    Try(Parser_consume_identifier(
            self, Err("MissingClassName", Parser_previous(self))),
        LAMBDA name :
    Try(Parser_consume(name.i, "LeftBrace",
                       Err("MissingBraceBeforeClassBody", Parser_previous(name.i))),
        LAMBDA open :
    Try(Parser_class_methods(open.i, <<>>),
        LAMBDA methods :
    Try(Parser_consume(methods.i, "RightBrace",
                       Err("MissingBraceAfterClassBody", Parser_previous(methods.i))),
        LAMBDA close :
    Ret(close.i, Ok(Stmt_Class(name.r.val, methods.r.val)))))))

\* The loop of function() that reads the parameters.
RECURSIVE Parser_parameters(_, _)
Parser_parameters(self, parameters) ==
    Try(Parser_consume_identifier(
            self, Err("MissingParameterName", Parser_previous(self))),
        LAMBDA parameter :
    IF Parser_check(parameter.i, "RightParen")
    THEN Ret(parameter.i, Ok(Append(parameters, parameter.r.val)))
    ELSE Parser_parameters(Parser_do_match(parameter.i, << "Comma" >>).i,
                           Append(parameters, parameter.r.val)))

Parser_function(self, kind) ==
    Try(Parser_consume_identifier(
            self, Err("MissingName", << Parser_previous(self), kind >>)),
        LAMBDA name :
    Try(Parser_consume(name.i, "LeftParen",
                       Err("MissingParenAfterName", << name.r.val, kind >>)),
        LAMBDA open :
    Try(IF ~Parser_check(open.i, "RightParen")
        THEN Parser_parameters(open.i, <<>>)
        ELSE Ret(open.i, Ok(<<>>)),
        LAMBDA parameters :
    Try(Parser_consume(parameters.i, "RightParen",
                       Err("MissingParenAfterParameters",
                           Parser_previous(parameters.i))),
        LAMBDA close :
    Try(Parser_consume(close.i, "LeftBrace",
                       Err("MissingBraceBeforeBody",
                           << Parser_previous(close.i), kind >>)),
        LAMBDA brace :
    Try(Parser_method(brace.i, "block_statement", <<>>),
        LAMBDA block :
    Ret(block.i,
        Ok(Stmt_Function(name.r.val, parameters.r.val, block.r.val.statements)))))))))

Parser_declaration(self) ==
    LET class == Parser_do_match(self, << "Class" >>)
        fun == Parser_do_match(self, << "Fun" >>)
        var == Parser_do_match(self, << "Var" >>)
    IN CASE class.r -> Parser_method(class.i, "class_declaration", <<>>)
         [] fun.r -> Parser_method(fun.i, "function", << "function" >>)
         [] var.r -> Parser_method(var.i, "var_declaration", <<>>)
         [] OTHER -> Parser_method(self, "statement", <<>>)

Parser_statement(self) ==
    LET for == Parser_do_match(self, << "For" >>)
        if == Parser_do_match(self, << "If" >>)
        print == Parser_do_match(self, << "Print" >>)
        return == Parser_do_match(self, << "Return" >>)
        while == Parser_do_match(self, << "While" >>)
        brace == Parser_do_match(self, << "LeftBrace" >>)
    IN CASE for.r -> Parser_method(for.i, "for_statement", <<>>)
         [] if.r -> Parser_method(if.i, "if_statement", <<>>)
         [] print.r -> Parser_method(print.i, "print_statement", <<>>)
         [] return.r -> Parser_method(return.i, "return_statement", <<>>)
         [] while.r -> Parser_method(while.i, "while_statement", <<>>)
         [] brace.r -> Parser_method(brace.i, "block_statement", <<>>)
         [] OTHER -> Parser_method(self, "expression_statement", <<>>)

\* while !self.check(&TokenType::RightBrace) && !self.is_at_end() {
\*     statements.push(self.declaration()?); }
Parser_block_statements(self, statements) ==
    IF ~Parser_check(self, "RightBrace") /\ ~Parser_is_at_end(self)
    THEN Try(Parser_method(self, "declaration", <<>>),
             LAMBDA declaration :
             Parser_block_statements(declaration.i,
                                     Append(statements, declaration.r.val)))
    ELSE Ret(self, Ok(statements))

Parser_block_statement(self) ==
    Try(Parser_block_statements(self, <<>>),
        LAMBDA statements :
    Try(Parser_consume(statements.i, "RightBrace",
                       Err("MissingBraceAfterBlock", Parser_previous(statements.i))),
        LAMBDA close :
    Ret(close.i, Ok(Stmt_Block(statements.r.val)))))

Parser_for_desugar_increment_first(initializer, condition, increment, body) ==
    LET with_increment == IF increment # None
                          THEN Stmt_Block(<< Stmt_Expr(increment[1]), body >>)
                          ELSE body
        loop == Stmt_While(IF condition = None THEN Expr_Literal(Bool(TRUE))
                           ELSE condition[1],
                           with_increment)
    IN IF initializer # None THEN Stmt_Block(<< initializer[1], loop >>) ELSE loop

\* The statement for_statement builds from the clauses and the body.
Parser_for_desugar(initializer, condition, increment, body) ==
    LET with_increment == IF increment # None
                          THEN Stmt_Block(<< body, Stmt_Expr(increment[1]) >>)
                          ELSE body
        loop == Stmt_While(IF condition = None THEN Expr_Literal(Bool(TRUE))
                           ELSE condition[1],
                           with_increment)
    IN IF initializer # None THEN Stmt_Block(<< initializer[1], loop >>) ELSE loop

\* let initializer = ... of for_statement: Ok(Option<Stmt>)
Parser_for_initializer(self) ==
    LET semicolon == Parser_do_match(self, << "Semicolon" >>)
        var == Parser_do_match(self, << "Var" >>)
    IN IF semicolon.r THEN Ret(semicolon.i, Ok(None))
       ELSE Try(IF var.r THEN Parser_method(var.i, "var_declaration", <<>>)
                ELSE Parser_method(self, "expression_statement", <<>>),
                LAMBDA stmt : Ret(stmt.i, Ok(Some(stmt.r.val))))

\* A clause of for_statement that is absent when the token that ends it is
\* next: Ok(Option<Expr>)
Parser_for_clause(self, end) ==
    IF Parser_check(self, end) THEN Ret(self, Ok(None))
    ELSE Try(Parser_method(self, "expression", <<>>),
             LAMBDA expr : Ret(expr.i, Ok(Some(expr.r.val))))

Parser_for_statement(self) ==
    Try(Parser_consume(self, "LeftParen",
                       Err("MissingParenAfterFor", Parser_previous(self))),
        LAMBDA open :
    Try(Parser_for_initializer(open.i),
        LAMBDA initializer :
    Try(Parser_for_clause(initializer.i, "Semicolon"),
        LAMBDA condition :
    Try(Parser_consume(condition.i, "Semicolon",
                       Err("MissingSemicolonAfterLoopCondition",
                           Parser_previous(condition.i))),
        LAMBDA semicolon :
    Try(Parser_for_clause(semicolon.i, "RightParen"),
        LAMBDA increment :
    Try(Parser_consume(increment.i, "RightParen",
                       Err("MissingParenAfterForClauses",
                           Parser_previous(increment.i))),
        LAMBDA close :
    Try(Parser_method(close.i, "statement", <<>>),
        LAMBDA body :
    Ret(body.i, Ok(Parser_for_desugar(initializer.r.val, condition.r.val,
                                      increment.r.val, body.r.val))))))))))

Parser_while_statement(self) ==
    Try(Parser_consume(self, "LeftParen",
                       Err("MissingParenAfterWhile", Parser_previous(self))),
        LAMBDA open :
    Try(Parser_method(open.i, "expression", <<>>),
        LAMBDA condition :
    Try(Parser_consume(condition.i, "RightParen",
                       Err("MissingParenAfterWhileCondition",
                           Parser_previous(condition.i))),
        LAMBDA close :
    Try(Parser_method(close.i, "statement", <<>>),
        LAMBDA body :
    Ret(body.i, Ok(Stmt_While(condition.r.val, body.r.val)))))))

Parser_if_statement(self) ==
    Try(Parser_consume(self, "LeftParen",
                       Err("MissingParenAfterIf", Parser_previous(self))),
        LAMBDA open :
    Try(Parser_method(open.i, "expression", <<>>),
        LAMBDA condition :
    Try(Parser_consume(condition.i, "RightParen",
                       Err("MissingParenAfterIfCondition",
                           Parser_previous(condition.i))),
        LAMBDA close :
    Try(Parser_method(close.i, "statement", <<>>),
        LAMBDA then_branch :
    LET else == Parser_do_match(then_branch.i, << "Else" >>)
    IN IF ~else.r
       THEN Ret(else.i, Ok(Stmt_If(condition.r.val, then_branch.r.val, None)))
       ELSE Try(Parser_method(else.i, "statement", <<>>),
                LAMBDA else_branch :
                Ret(else_branch.i,
                    Ok(Stmt_If(condition.r.val, then_branch.r.val,
                               Some(else_branch.r.val)))))))))

\* loop { arguments.push(self.expression()?);
\*        if !self.do_match(vec![TokenType::Comma]) { break; } }
Parser_arguments(self, arguments) ==
    Try(Parser_expression(self),
        LAMBDA argument :
    LET comma == Parser_do_match(argument.i, << "Comma" >>)
    IN IF ~comma.r
       THEN Ret(comma.i, Ok(Append(arguments, argument.r.val)))
       ELSE Parser_arguments(comma.i, Append(arguments, argument.r.val)))

Parser_finish_call(self, callee) ==
    Try(IF ~Parser_check(self, "RightParen")
        THEN Parser_arguments(self, <<>>)
        ELSE Ret(self, Ok(<<>>)),
        LAMBDA arguments :
    Try(Parser_consume(arguments.i, "RightParen",
                       Err("MissingParenAfterArguments",
                           Parser_previous(arguments.i))),
        LAMBDA paren :
    Ret(paren.i, Ok(Expr_Call(callee, paren.r.val, arguments.r.val)))))

\* The outcome of primary, logged when primary was called at Eof.
Parser_primary_return(self, at_end, token, returned) ==
    IF at_end
    THEN Ret([returned.i EXCEPT !.primary_at_end =
                                    Append(@, [token |-> token, ok |-> returned.r.ok])],
             returned.r)
    ELSE returned

Parser_primary(self) ==
    LET a == Parser_advance(self)
        token == a.r
        type == token.token_type
    IN Parser_primary_return(self, Parser_is_at_end(self), token,
       CASE type = "Panic" -> Ret(a.i, Overflow)
         [] type = "False" -> Ret(a.i, Ok(Expr_Literal(Bool(FALSE))))
         [] type = "True" -> Ret(a.i, Ok(Expr_Literal(Bool(TRUE))))
         [] type = "Nil" -> Ret(a.i, Ok(Expr_Literal(Nil)))
         [] type = "Number" -> Ret(a.i, Ok(Expr_Literal(Number(token.payload))))
         [] type = "String" -> Ret(a.i, Ok(Expr_Literal(String(token.payload))))
         [] type = "This" -> Ret(a.i, Ok(Expr_This(Parser_previous(a.i))))
         [] type = "Identifier" -> Ret(a.i, Ok(Expr_Variable(Parser_previous(a.i))))
         [] type = "LeftParen" /\ ~Parser_is_at_end(a.i) ->
              Try(Parser_expression(a.i),
                  LAMBDA expr :
              Try(Parser_consume(expr.i, "RightParen",
                                 Err("MissingParenAfterExpression", token)),
                  LAMBDA close :
              Ret(close.i, Ok(Expr_Grouping(expr.r.val)))))
         [] OTHER -> Ret(a.i, Err("InvalidToken", token)))

\* The loop of call(): a call or a property after the expression so far.
Parser_call_loop(self, expr) ==
    LET paren == Parser_do_match(self, << "LeftParen" >>)
        dot == Parser_do_match(self, << "Dot" >>)
    IN IF paren.r
       THEN Try(Parser_method(paren.i, "finish_call", << expr >>),
                LAMBDA finished : Parser_call_loop(finished.i, finished.r.val))
       ELSE IF dot.r
       THEN Try(Parser_consume_identifier(
                    dot.i, Err("MissingPropertyName", Parser_previous(dot.i))),
                LAMBDA name : Parser_call_loop(name.i, Expr_Get(expr, name.r.val)))
       ELSE Ret(self, Ok(expr))

Parser_call(self) ==
    Try(Parser_primary(self),
        LAMBDA expr : Parser_call_loop(expr.i, expr.r.val))

Parser_unary(self) ==
    LET token == Parser_peek(self)
    IN IF token.token_type = "Bang" \/ token.token_type = "Minus"
       THEN LET operator == Parser_advance(self)
            IN Try(Parser_method(operator.i, "unary", <<>>),
                   LAMBDA right :
                   Ret(right.i, Ok(Expr_Unary(operator.r, right.r.val))))
       ELSE Parser_call(self)

\* while self.do_match(<operators of the level>) { ... Expr::Logical ... }
Parser_logical_loop(self, expr, level) ==
    LET m == Parser_do_match(self, Parser_operators(level))
    IN IF ~m.r THEN Ret(m.i, Ok(expr))
       ELSE Try(Parser_operand(m.i, level),
                LAMBDA right :
                Parser_logical_loop(
                    right.i,
                    Expr_Logical(expr, Parser_previous(m.i), right.r.val), level))

\* while self.do_match(<operators of the level>) { ... Expr::Binary ... }
Parser_binary_loop(self, expr, level) ==
    LET m == Parser_do_match(self, Parser_operators(level))
    IN IF ~m.r THEN Ret(m.i, Ok(expr))
       ELSE Try(Parser_operand(m.i, level),
                LAMBDA right :
                Parser_binary_loop(
                    right.i,
                    Expr_Binary(expr, Parser_previous(m.i), right.r.val), level))

Parser_factor(self) ==
    Try(Parser_unary(self),
        LAMBDA expr : Parser_binary_loop(expr.i, expr.r.val, "factor"))

Parser_term(self) ==
    Try(Parser_factor(self),
        LAMBDA expr : Parser_binary_loop(expr.i, expr.r.val, "term"))

Parser_comparison(self) ==
    Try(Parser_term(self),
        LAMBDA expr : Parser_binary_loop(expr.i, expr.r.val, "comparison"))

Parser_equality(self) ==
    Try(Parser_comparison(self),
        LAMBDA expr : Parser_binary_loop(expr.i, expr.r.val, "equality"))

Parser_and(self) ==
    Try(Parser_equality(self),
        LAMBDA expr : Parser_logical_loop(expr.i, expr.r.val, "and"))

Parser_or(self) ==
    Try(Parser_and(self),
        LAMBDA expr : Parser_logical_loop(expr.i, expr.r.val, "or"))

Parser_assignment(self) ==
    Try(Parser_or(self),
        LAMBDA expr :
    LET m == Parser_do_match(expr.i, << "Equal" >>)
    IN IF ~m.r THEN Ret(m.i, Ok(expr.r.val))
       ELSE Try(Parser_method(m.i, "assignment", <<>>),
                LAMBDA value :
                IF expr.r.val.e = "Variable"
                THEN Ret(value.i, Ok(Expr_Assign(expr.r.val.name, value.r.val)))
                ELSE IF expr.r.val.e = "Get"
                THEN Ret(value.i,
                         Ok(Expr_Set(expr.r.val.object, expr.r.val.name,
                                     value.r.val)))
                ELSE Ret(value.i, Ok(expr.r.val))))

Parser_expression(self) == Parser_assignment(self)

\* One call of declaration made by parse, logged.
Parser_parse_declaration(self) ==
    \* the call, the cursor before it and after it
    LET declaration == Parser_method(self, "declaration", <<>>)
    IN Ret([declaration.i EXCEPT !.declarations =
                Append(@, [from |-> self.current, to |-> declaration.i.current,
                           ok |-> declaration.r.ok,
                           panic |-> IsPanic(declaration.r)])],
           declaration.r)

\* The loop of parse(), testing for the end after each declaration.
RECURSIVE Parser_parse_loop_test_after(_, _, _)
Parser_parse_loop_test_after(self, statements, errors) ==
    LET declaration == Parser_parse_declaration(self)
    IN IF IsPanic(declaration.r) THEN declaration
       ELSE IF Parser_is_at_end(declaration.i)
       THEN Ret(declaration.i,
                Ok(IF declaration.r.ok
                   THEN [statements |-> Append(statements, declaration.r.val),
                         errors |-> errors]
                   ELSE [statements |-> statements,
                         errors |-> Append(errors, declaration.r.val)]))
       ELSE IF declaration.r.ok
       THEN Parser_parse_loop_test_after(declaration.i,
                                         Append(statements, declaration.r.val), errors)
       ELSE Parser_parse_loop_test_after(declaration.i, statements,
                                         Append(errors, declaration.r.val))

\* The loop of parse(): one declaration after another up to the Eof.
RECURSIVE Parser_parse_loop(_, _, _)
Parser_parse_loop(self, statements, errors) ==
    IF ~Parser_is_at_end(self)
    THEN LET declaration == Parser_parse_declaration(self)
         IN IF IsPanic(declaration.r) THEN declaration
            ELSE IF declaration.r.ok
            THEN Parser_parse_loop(declaration.i,
                                   Append(statements, declaration.r.val), errors)
            ELSE Parser_parse_loop(declaration.i, statements,
                                   Append(errors, declaration.r.val))
    ELSE Ret(self, Ok([statements |-> statements, errors |-> errors]))

Parser_parse_result_ok(statements, errors) ==
    [ok |-> TRUE, val |-> statements]

\* if errors.is_empty() { Ok(statements) } else { Err(errors) }
Parser_parse_result(statements, errors) ==
    IF errors = <<>> THEN [ok |-> TRUE, val |-> statements]
    ELSE [ok |-> FALSE, val |-> errors]

Parser_parse(self, tokens) ==
    Try(Parser_parse_loop([self EXCEPT !.tokens = tokens, !.current = 0], <<>>, <<>>),
        LAMBDA end :
    Ret(end.i, Parser_parse_result(end.r.val.statements, end.r.val.errors)))

\* impl Parser: the method of that name, applied to self and the arguments.
Parser_method(self, method, arguments) ==
    CASE method = "declaration" -> Parser_declaration(self)
      [] method = "class_declaration" -> Parser_class_declaration(self)
      [] method = "function" -> Parser_function(self, arguments[1])
      [] method = "var_declaration" -> Parser_var_declaration(self)
      [] method = "statement" -> Parser_statement(self)
      [] method = "return_statement" -> Parser_return_statement(self)
      [] method = "for_statement" -> Parser_for_statement(self)
      [] method = "while_statement" -> Parser_while_statement(self)
      [] method = "if_statement" -> Parser_if_statement(self)
      [] method = "print_statement" -> Parser_print_statement(self)
      [] method = "block_statement" -> Parser_block_statement(self)
      [] method = "expression_statement" -> Parser_expression_statement(self)
      [] method = "expression" -> Parser_expression(self)
      [] method = "assignment" -> Parser_assignment(self)
      [] method = "or" -> Parser_or(self)
      [] method = "and" -> Parser_and(self)
      [] method = "equality" -> Parser_equality(self)
      [] method = "comparison" -> Parser_comparison(self)
      [] method = "term" -> Parser_term(self)
      [] method = "factor" -> Parser_factor(self)
      [] method = "unary" -> Parser_unary(self)
      [] method = "call" -> Parser_call(self)
      [] method = "finish_call" -> Parser_finish_call(self, arguments[1])
      [] method = "primary" -> Parser_primary(self)
      [] method = "parse" -> Parser_parse(self, arguments[1])

(***************************************************************************)
(* The token lists the model parses: the tokens the scanner gives for a    *)
(* source with one declaration on each line.                               *)
(***************************************************************************)
\* Display of the token types that have no value.
TokenType_to_string(token_type) ==
    CASE token_type = "LeftParen" -> "(" [] token_type = "RightParen" -> ")"
      [] token_type = "LeftBrace" -> "{" [] token_type = "RightBrace" -> "}"
      [] token_type = "Comma" -> "," [] token_type = "Dot" -> "."
      [] token_type = "Minus" -> "-" [] token_type = "Plus" -> "+"
      [] token_type = "Semicolon" -> ";" [] token_type = "Slash" -> "/"
      [] token_type = "Star" -> "*" [] token_type = "Bang" -> "!"
      [] token_type = "BangEqual" -> "!=" [] token_type = "Equal" -> "="
      [] token_type = "EqualEqual" -> "==" [] token_type = "Greater" -> ">"
      [] token_type = "GreaterEqual" -> ">=" [] token_type = "Less" -> "<"
      [] token_type = "LessEqual" -> "<=" [] token_type = "And" -> "and"
      [] token_type = "Class" -> "class" [] token_type = "Else" -> "else"
      [] token_type = "False" -> "false" [] token_type = "Fun" -> "fun"
      [] token_type = "For" -> "for" [] token_type = "If" -> "if"
      [] token_type = "Nil" -> "nil" [] token_type = "Or" -> "or"
      [] token_type = "Print" -> "print" [] token_type = "Return" -> "return"
      [] token_type = "Super" -> "super" [] token_type = "This" -> "this"
      [] token_type = "True" -> "true" [] token_type = "Var" -> "var"
      [] token_type = "While" -> "while" [] token_type = "Eof" -> ""

\* Token::new(token_type, line) for a token type without a value
Tok(token_type, line) ==
    Token_new_with_lexeme(token_type, TokenType_to_string(token_type), line)

\* Token::new(TokenType::Identifier(name), line)
Id(name, line) == Token_new_with_lexeme("Identifier", name, line)

IdExpr(name, line) == Expr_Variable(Id(name, line))

\* The well-formed declarations: the tokens of the declaration written on
\* line l and the statement it is.
GoodDecl(d, l) ==
    CASE d = "print a;" ->
           [tokens |-> << Tok("Print", l), Id("a", l), Tok("Semicolon", l) >>,
            stmt |-> Stmt_Print(IdExpr("a", l))]
      [] d = "var b = 1;" ->
           [tokens |-> << Tok("Var", l), Id("b", l), Tok("Equal", l),
                          Token_Number(1, l), Tok("Semicolon", l) >>,
            stmt |-> Stmt_Var(Id("b", l), Some(Num(1)))]
      [] d = "c = \"s\";" ->
           [tokens |-> << Id("c", l), Tok("Equal", l), Token_String("s", l),
                          Tok("Semicolon", l) >>,
            stmt |-> Stmt_Expr(Expr_Assign(Id("c", l), Str("s")))]
      [] d = "{ d; }" ->
           [tokens |-> << Tok("LeftBrace", l), Id("d", l), Tok("Semicolon", l),
                          Tok("RightBrace", l) >>,
            stmt |-> Stmt_Block(<< Stmt_Expr(IdExpr("d", l)) >>)]
      [] d = "fun f(x, y) { return x; }" ->
           [tokens |-> << Tok("Fun", l), Id("f", l), Tok("LeftParen", l),
                          Id("x", l), Tok("Comma", l), Id("y", l),
                          Tok("RightParen", l), Tok("LeftBrace", l),
                          Tok("Return", l), Id("x", l), Tok("Semicolon", l),
                          Tok("RightBrace", l) >>,
            stmt |-> Stmt_Function(Id("f", l), << Id("x", l), Id("y", l) >>,
                         << Stmt_Return(Tok("Return", l), Some(IdExpr("x", l))) >>)]
      [] d = "if (a) b; else c;" ->
           [tokens |-> << Tok("If", l), Tok("LeftParen", l), Id("a", l),
                          Tok("RightParen", l), Id("b", l), Tok("Semicolon", l),
                          Tok("Else", l), Id("c", l), Tok("Semicolon", l) >>,
            stmt |-> Stmt_If(IdExpr("a", l), Stmt_Expr(IdExpr("b", l)),
                             Some(Stmt_Expr(IdExpr("c", l))))]
      [] d = "while (!a) g(1, this).p;" ->
           [tokens |-> << Tok("While", l), Tok("LeftParen", l), Tok("Bang", l),
                          Id("a", l), Tok("RightParen", l), Id("g", l),
                          Tok("LeftParen", l), Token_Number(1, l), Tok("Comma", l),
                          Tok("This", l), Tok("RightParen", l), Tok("Dot", l),
                          Id("p", l), Tok("Semicolon", l) >>,
            stmt |-> Stmt_While(Expr_Unary(Tok("Bang", l), IdExpr("a", l)),
                         Stmt_Expr(Expr_Get(
                             Expr_Call(IdExpr("g", l), Tok("RightParen", l),
                                       << Num(1), Expr_This(Tok("This", l)) >>),
                             Id("p", l))))]
      [] d = "class K { m() { } }" ->
           [tokens |-> << Tok("Class", l), Id("K", l), Tok("LeftBrace", l),
                          Id("m", l), Tok("LeftParen", l), Tok("RightParen", l),
                          Tok("LeftBrace", l), Tok("RightBrace", l),
                          Tok("RightBrace", l) >>,
            stmt |-> Stmt_Class(Id("K", l), << Stmt_Function(Id("m", l), <<>>, <<>>) >>)]
      [] d = "return nil or (true and false);" ->
           [tokens |-> << Tok("Return", l), Tok("Nil", l), Tok("Or", l),
                          Tok("LeftParen", l), Tok("True", l), Tok("And", l),
                          Tok("False", l), Tok("RightParen", l), Tok("Semicolon", l) >>,
            stmt |-> Stmt_Return(Tok("Return", l),
                         Some(Expr_Logical(Expr_Literal(Nil), Tok("Or", l),
                             Expr_Grouping(Expr_Logical(Expr_Literal(Bool(TRUE)),
                                 Tok("And", l), Expr_Literal(Bool(FALSE)))))))]

GoodDecls ==
    { "print a;", "var b = 1;", "c = \"s\";", "{ d; }", "fun f(x, y) { return x; }",
      "if (a) b; else c;", "while (!a) g(1, this).p;", "class K { m() { } }",
      "return nil or (true and false);" }

\* The ill-formed declarations: the tokens of the declaration written on
\* line l.  None is repaired by the declaration after it: no declaration of
\* the model starts with `;` or `)`.
BadDecl(d, l) ==
    CASE d = "var = 1;" ->
           << Tok("Var", l), Tok("Equal", l), Token_Number(1, l), Tok("Semicolon", l) >>
      [] d = "print 1" -> << Tok("Print", l), Token_Number(1, l) >>
      [] d = "(a;" -> << Tok("LeftParen", l), Id("a", l), Tok("Semicolon", l) >>
      [] d = "print ;" -> << Tok("Print", l), Tok("Semicolon", l) >>

BadDecls == { "var = 1;", "print 1", "(a;", "print ;" }

DeclTokens(d, l) == IF d \in GoodDecls THEN GoodDecl(d, l).tokens ELSE BadDecl(d, l)

\* The tokens of the source with the declarations decls, one on each line,
\* and the Eof on the line after the last.
RECURSIVE SourceTokens(_, _)
SourceTokens(decls, l) ==
    IF decls = <<>> THEN << Tok("Eof", l) >>
    ELSE DeclTokens(Head(decls), l) \o SourceTokens(Tail(decls), l + 1)

\* The tokens of a token type on line 1, and three alphabets of token types:
\* of expressions, of statements and of declarations.
TokenOf(token_type) ==
    CASE token_type = "Number" -> Token_Number(1, 1)
      [] token_type = "Identifier" -> Id("a", 1)
      [] OTHER -> Tok(token_type, 1)

Alphabets ==
    { { "LeftParen", "RightParen", "Number", "Identifier", "This", "Minus", "Equal",
        "Comma", "Dot" },
      { "Print", "Return", "If", "Else", "For", "LeftParen", "RightParen",
        "Identifier", "Semicolon" },
      { "Var", "Fun", "Class", "Identifier", "LeftParen", "RightParen", "LeftBrace",
        "RightBrace", "Semicolon" } }

\* The lists of n token types of an alphabet with at most MaxNesting tokens
\* that open a group, an argument list or a block.
TokenLists(alphabet, n) ==
    { types \in [1..n -> alphabet] :
        Cardinality({ i \in 1..n : types[i] \in { "LeftParen", "LeftBrace" } })
            <= MaxNesting }

\* Expressions over the numbers 1, 2 and 3 with two operators, on line 1.
InfixOperators ==
    { "Or", "And", "BangEqual", "EqualEqual", "Greater", "GreaterEqual", "Less",
      "LessEqual", "Minus", "Plus", "Slash", "Star" }

PrecedenceShapes ==
    { "x op1 y op2 z", "(x op1 y) op2 z", "x op1 (y op2 z)", "-x op2 z", "!x op2 z" }

PrecedenceTokens(shape, op1, op2) ==
    LET x == << Token_Number(1, 1) >>
        y == << Token_Number(2, 1) >>
        z == << Token_Number(3, 1) >>
        open == << Tok("LeftParen", 1) >>
        close == << Tok("RightParen", 1) >>
    IN CASE shape = "x op1 y op2 z" ->
              x \o << Tok(op1, 1) >> \o y \o << Tok(op2, 1) >> \o z
         [] shape = "(x op1 y) op2 z" ->
              open \o x \o << Tok(op1, 1) >> \o y \o close \o << Tok(op2, 1) >> \o z
         [] shape = "x op1 (y op2 z)" ->
              x \o << Tok(op1, 1) >> \o open \o y \o << Tok(op2, 1) >> \o z \o close
         [] shape = "-x op2 z" -> << Tok("Minus", 1) >> \o x \o << Tok(op2, 1) >> \o z
         [] shape = "!x op2 z" -> << Tok("Bang", 1) >> \o x \o << Tok(op2, 1) >> \o z

\* Single declarations with a particular shape: the tokens of the
\* declaration written on line l.
SampleDecl(d, l) ==
    CASE d = "1 = 2;" ->
           << Token_Number(1, l), Tok("Equal", l), Token_Number(2, l),
              Tok("Semicolon", l) >>
      [] d = "(a) = 2;" ->
           << Tok("LeftParen", l), Id("a", l), Tok("RightParen", l), Tok("Equal", l),
              Token_Number(2, l), Tok("Semicolon", l) >>
      [] d = "a = 2;" ->
           << Id("a", l), Tok("Equal", l), Token_Number(2, l), Tok("Semicolon", l) >>
      [] d = "a.b = 2;" ->
           << Id("a", l), Tok("Dot", l), Id("b", l), Tok("Equal", l),
              Token_Number(2, l), Tok("Semicolon", l) >>
      [] d = "fun f(a, b) {}" ->
           << Tok("Fun", l), Id("f", l), Tok("LeftParen", l), Id("a", l),
              Tok("Comma", l), Id("b", l), Tok("RightParen", l), Tok("LeftBrace", l),
              Tok("RightBrace", l) >>
      [] d = "fun f(a b) {}" ->
           << Tok("Fun", l), Id("f", l), Tok("LeftParen", l), Id("a", l),
              Id("b", l), Tok("RightParen", l), Tok("LeftBrace", l),
              Tok("RightBrace", l) >>
      [] d = "fun f(a,) {}" ->
           << Tok("Fun", l), Id("f", l), Tok("LeftParen", l), Id("a", l),
              Tok("Comma", l), Tok("RightParen", l), Tok("LeftBrace", l),
              Tok("RightBrace", l) >>
      [] d = "f(1, 2);" ->
           << Id("f", l), Tok("LeftParen", l), Token_Number(1, l), Tok("Comma", l),
              Token_Number(2, l), Tok("RightParen", l), Tok("Semicolon", l) >>
      [] d = "f(1 2);" ->
           << Id("f", l), Tok("LeftParen", l), Token_Number(1, l),
              Token_Number(2, l), Tok("RightParen", l), Tok("Semicolon", l) >>
      [] d = "f(1,);" ->
           << Id("f", l), Tok("LeftParen", l), Token_Number(1, l), Tok("Comma", l),
              Tok("RightParen", l), Tok("Semicolon", l) >>

\* Assignments, by the expression on the left of `=`.
InvalidTargetDecls == { "1 = 2;", "(a) = 2;" }
ValidTargetDecls == { "a = 2;", "a.b = 2;" }

\* Parameter and argument lists, by their commas.
SeparatedListDecls == { "fun f(a, b) {}", "f(1, 2);" }
MissingCommaDecls == { "fun f(a b) {}", "f(1 2);" }
TrailingCommaDecls == { "fun f(a,) {}", "f(1,);" }

SampleDecls ==
    InvalidTargetDecls \cup ValidTargetDecls \cup SeparatedListDecls
        \cup MissingCommaDecls \cup TrailingCommaDecls

\* The clauses of a for statement on line 1 over the variable i: the
\* tokens of the clause and what it parses to.
ForInitializer(kind) ==
    CASE kind = "absent" -> [tokens |-> << Tok("Semicolon", 1) >>, parsed |-> None]
      [] kind = "var i = 0;" ->
           [tokens |-> << Tok("Var", 1), Id("i", 1), Tok("Equal", 1),
                          Token_Number(0, 1), Tok("Semicolon", 1) >>,
            parsed |-> Some(Stmt_Var(Id("i", 1), Some(Num(0))))]
      [] kind = "i = 0;" ->
           [tokens |-> << Id("i", 1), Tok("Equal", 1), Token_Number(0, 1),
                          Tok("Semicolon", 1) >>,
            parsed |-> Some(Stmt_Expr(Expr_Assign(Id("i", 1), Num(0))))]

ForCondition(kind, n) ==
    CASE kind = "absent" -> [tokens |-> <<>>, parsed |-> None]
      [] kind = "i < n" ->
           [tokens |-> << Id("i", 1), Tok("Less", 1), Token_Number(n, 1) >>,
            parsed |-> Some(Expr_Binary(IdExpr("i", 1), Tok("Less", 1), Num(n)))]

ForIncrement(kind) ==
    CASE kind = "absent" -> [tokens |-> <<>>, parsed |-> None]
      [] kind = "i = i + 1" ->
           [tokens |-> << Id("i", 1), Tok("Equal", 1), Id("i", 1), Tok("Plus", 1),
                          Token_Number(1, 1) >>,
            parsed |-> Some(Expr_Assign(Id("i", 1),
                           Expr_Binary(IdExpr("i", 1), Tok("Plus", 1), Num(1))))]

\* The body: `print i;`, or `{ print i; i = i + 1; }` for a loop that counts
\* without an increment clause.
ForBody(kind) ==
    CASE kind = "print i;" ->
           [tokens |-> << Tok("Print", 1), Id("i", 1), Tok("Semicolon", 1) >>,
            parsed |-> Stmt_Print(IdExpr("i", 1))]
      [] kind = "{ print i; i = i + 1; }" ->
           [tokens |-> << Tok("LeftBrace", 1), Tok("Print", 1), Id("i", 1),
                          Tok("Semicolon", 1) >>
                       \o ForIncrement("i = i + 1").tokens
                       \o << Tok("Semicolon", 1), Tok("RightBrace", 1) >>,
            parsed |-> Stmt_Block(<< Stmt_Print(IdExpr("i", 1)),
                                     Stmt_Expr(ForIncrement("i = i + 1").parsed[1]) >>)]

ForInitializers == { "absent", "var i = 0;", "i = 0;" }
ForConditions == { "absent", "i < n" }
ForIncrements == { "absent", "i = i + 1" }

\* for (<initializer> <condition>; <increment>) <body>
ForTokens(initializer, condition, increment, body, n) ==
    << Tok("For", 1), Tok("LeftParen", 1) >>
    \o ForInitializer(initializer).tokens
    \o ForCondition(condition, n).tokens \o << Tok("Semicolon", 1) >>
    \o ForIncrement(increment).tokens \o << Tok("RightParen", 1) >>
    \o ForBody(body).tokens

(***************************************************************************)
(* SpecParse: one token list parsed by a new Parser, as the unit tests of  *)
(* parser.rs do, or parsed and interpreted, as `run` of main.rs does after *)
(* the scan.  `program` is the input, `result` the result of parse (of     *)
(* interpret, in Run, when the parse succeeded), `output` the lines        *)
(* printed, `environment` the environment of the interpreter.              *)
(***************************************************************************)
InitParse ==
    /\ environment = Interpreter_new.environment
    /\ prev = Interpreter_new.environment
    /\ program = [input |-> [kind |-> "none"], tokens |-> <<>>, parser |-> Parser_new]
    /\ result = Ok(<<>>)
    /\ output = <<>>
    /\ runs = 0

\* Parser::new().parse(tokens)
ParseTokens(input, tokens) ==
    /\ \E parsed \in { Parser_method(Parser_new, "parse", << tokens >>) } :
           /\ program' = [input |-> input, tokens |-> tokens, parser |-> parsed.i]
           /\ result' = parsed.r
    /\ runs' = 1
    /\ UNCHANGED << environment, prev, output >>

\* run(), from the parse on
RunTokens(input, tokens) ==
    /\ program' = [input |-> input, tokens |-> tokens]
    /\ runs' = 1
    /\ prev' = environment
    /\ \E x \in { Try(Ret([environment |-> Interpreter_new.environment,
                           stdout |-> <<>>, now |-> 1],
                          Parser_method(Parser_new, "parse", << tokens >>).r),
                      LAMBDA parsed : Interpreter_interpret(parsed.i, parsed.r.val)) } :
          /\ result' = x.r
          /\ output' = x.i.stdout
          /\ environment' = x.i.environment

\* A source of up to MaxDecls declarations, one on each line.
Parse ==
    /\ runs = 0
    /\ \E n \in 0..MaxDecls : \E decls \in [1..n -> GoodDecls \cup BadDecls] :
           ParseTokens([kind |-> "decls", decls |-> decls], SourceTokens(decls, 1))

\* Every list of up to MaxTokens tokens of one alphabet with at most
\* MaxNesting opening tokens, followed by Eof.
ParseList ==
    /\ runs = 0
    /\ \E alphabet \in Alphabets : \E n \in 0..MaxTokens :
           \E types \in TokenLists(alphabet, n) :
               ParseTokens([kind |-> "list"],
                           [i \in 1..n |-> TokenOf(types[i])] \o << Tok("Eof", 1) >>)

\* A source of one declaration with a particular shape.
ParseSample ==
    /\ runs = 0
    /\ \E d \in SampleDecls :
           ParseTokens([kind |-> "sample", decl |-> d],
                       SampleDecl(d, 1) \o << Tok("Eof", 2) >>)

\* <expression>;  for an expression with two operators.
ParsePrecedence ==
    /\ runs = 0
    /\ \E shape \in PrecedenceShapes, op1 \in InfixOperators, op2 \in InfixOperators :
           ParseTokens([kind |-> "precedence", shape |-> shape, op1 |-> op1,
                        op2 |-> op2],
                       PrecedenceTokens(shape, op1, op2)
                       \o << Tok("Semicolon", 1), Tok("Eof", 1) >>)

\* print <expression>;  for an arithmetic expression with two operators.
RunPrecedence ==
    /\ runs = 0
    /\ \E shape \in PrecedenceShapes \ { "!x op2 z" },
          op1 \in { "Minus", "Plus", "Star" }, op2 \in { "Minus", "Plus", "Star" } :
           RunTokens([kind |-> "evaluate", shape |-> shape, op1 |-> op1, op2 |-> op2],
                     << Tok("Print", 1) >> \o PrecedenceTokens(shape, op1, op2)
                     \o << Tok("Semicolon", 1), Tok("Eof", 1) >>)

\* A for statement with each clause present or absent.
ParseFor ==
    /\ runs = 0
    /\ \E initializer \in ForInitializers, condition \in ForConditions,
          increment \in ForIncrements :
           ParseTokens([kind |-> "for", initializer |-> initializer,
                        condition |-> condition, increment |-> increment],
                       ForTokens(initializer, condition, increment, "print i;", ForLimit)
                       \o << Tok("Eof", 2) >>)

\* var i = 0; for (; i < n;) { print i; i = i + 1; }   or
\* for (var i = 0; i < n; i = i + 1) print i;           or the mixed forms
RunFor ==
    /\ runs = 0
    /\ \E initializer \in { "absent", "var i = 0;" }, increment \in ForIncrements,
          n \in 0..ForLimit :
           RunTokens([kind |-> "run", initializer |-> initializer,
                      increment |-> increment, n |-> n],
                     (IF initializer = "absent"
                      THEN ForInitializer("var i = 0;").tokens ELSE <<>>)
                     \o ForTokens(initializer, "i < n", increment,
                                  IF increment = "absent"
                                  THEN "{ print i; i = i + 1; }" ELSE "print i;", n)
                     \o << Tok("Eof", 2) >>)

NextParse ==
    Parse \/ ParseList \/ ParseSample \/ ParsePrecedence \/ RunPrecedence \/ ParseFor \/ RunFor

SpecParse == InitParse /\ [][NextParse]_vars

(***************************************************************************)
(* Claims about the Parser, checked under SpecParse.                       *)
(***************************************************************************)
\* The line of the token a ParseError carries.
ParseError_line(error) ==
    IF error[1] \in { "MissingName", "MissingParenAfterName", "MissingBraceBeforeBody" }
    THEN error[2][1].line
    ELSE error[2].line

\* A source of declarations has been parsed.
ParsedDecls == runs = 1 /\ program.input.kind = "decls"

\* C18: parse returns Ok(statements) exactly when no declaration failed,
\* with the statements in source order; otherwise it returns Err with a
\* non-empty list of parse errors, ordered by the position in the source at
\* which each arose, and no statements.
C18_ParseReturnsStatementsOrErrors ==
    ParsedDecls =>
        LET decls == program.input.decls
        IN /\ result.ok = (\A i \in DOMAIN decls : decls[i] \in GoodDecls)
           /\ result.ok => result.val = [i \in DOMAIN decls |-> GoodDecl(decls[i], i).stmt]
           /\ ~result.ok =>
                 /\ result.val # <<>>
                 /\ \A i \in DOMAIN result.val :
                        /\ ParseError_line(result.val[i]) \in DOMAIN decls
                        /\ \A j \in DOMAIN result.val :
                               i < j => ParseError_line(result.val[i])
                                            <= ParseError_line(result.val[j])

\* var = 1;  (newline)  print a;  : an error on line 1 and no statement.
C18_Witness ==
    /\ ParsedDecls
    /\ program.input.decls = << "var = 1;", "print a;" >>
    /\ ~result.ok
    /\ result.val[1] = Err("MissingVariableName", Tok("Var", 1)).val

\* C19: after a parse error inside a declaration the parser synchronizes at
\* a statement boundary: the tokens left over from the failed declaration
\* are skipped and give no further error, so there is one error for each
\* ill-formed declaration.
C19_OneErrorForEachFailedDeclaration ==
    (ParsedDecls /\ ~result.ok) =>
        LET decls == program.input.decls
        IN Len(result.val) = Cardinality({i \in DOMAIN decls : decls[i] \in BadDecls})

\* What the language definition gives for a for statement with the parsed
\* clauses initializer, condition, increment (None when absent) and body.
ForRewritten(initializer, condition, increment, body) ==
    LET inner == IF increment = None THEN body
                 ELSE Stmt_Block(<< body, Stmt_Expr(increment[1]) >>)
        while == Stmt_While(IF condition = None THEN Expr_Literal(Bool(TRUE))
                            ELSE condition[1], inner)
    IN IF initializer = None THEN while
       ELSE Stmt_Block(<< initializer[1], while >>)

\* C20: `for (init; cond; inc) body` is parsed into
\* Block([init, While(cond, Block([body, Expr(inc)]))]), with Literal(true)
\* for an absent condition, the body unwrapped for an absent increment and
\* the While unwrapped for an absent initializer; executing it runs init
\* once, tests cond before each iteration and runs inc after each body:
\* the loop that counts i from 0 while i < n prints 0, 1, .., n - 1.
C20_ForIsRewrittenToWhile ==
    /\ (runs = 1 /\ program.input.kind = "for") =>
           result = Ok(<< ForRewritten(
                              ForInitializer(program.input.initializer).parsed,
                              ForCondition(program.input.condition, ForLimit).parsed,
                              ForIncrement(program.input.increment).parsed,
                              ForBody("print i;").parsed) >>)
    /\ (runs = 1 /\ program.input.kind = "run") =>
           /\ result = Ok(Unit)
           /\ output = [k \in 1..program.input.n |-> Number_fmt(k - 1)]

\* for (var i = 0; i < ForLimit; i = i + 1) print i;  has printed
\* 0 .. ForLimit - 1.
C20_Witness ==
    /\ runs = 1
    /\ program.input = [kind |-> "run", initializer |-> "var i = 0;",
                        increment |-> "i = i + 1", n |-> ForLimit]
    /\ Len(output) = ForLimit
    /\ output[1] = "0"
    /\ output[ForLimit] = Number_fmt(ForLimit - 1)

\* The sample declaration d has been parsed.
ParsedSample(d) == runs = 1 /\ program.input = [kind |-> "sample", decl |-> d]

\* C21: when the expression on the left of `=` is neither a Variable nor a
\* Get (`1 = 2;`, `(a) = 2;`), the parse fails with an error that carries
\* the `=`: it never succeeds with the `=` and the right side dropped.
C21_InvalidAssignmentTargetIsAnError ==
    \A d \in InvalidTargetDecls :
        ParsedSample(d) =>
            /\ ~result.ok
            /\ \E i \in DOMAIN result.val : result.val[i][2] = Tok("Equal", 1)

\* C22: a parameter list is accepted only if it is IDENT (',' IDENT)*: two
\* names without a comma between them and a comma after the last name are
\* rejected, and so is an argument list with a comma after the last
\* argument; the lists with the commas in place are accepted.
C22_ListsAreCommaSeparated ==
    /\ \A d \in SeparatedListDecls : ParsedSample(d) => result.ok
    /\ \A d \in MissingCommaDecls \cup TrailingCommaDecls :
           ParsedSample(d) => ~result.ok

\* The precedence of the language definition: a higher level binds tighter.
PrecedenceLevel(operator) ==
    CASE operator = "Or" -> 1
      [] operator = "And" -> 2
      [] operator \in { "BangEqual", "EqualEqual" } -> 3
      [] operator \in { "Greater", "GreaterEqual", "Less", "LessEqual" } -> 4
      [] operator \in { "Minus", "Plus" } -> 5
      [] operator \in { "Slash", "Star" } -> 6

\* The expression  left operator right.
Infix(left, operator, right) ==
    IF operator \in { "Or", "And" }
    THEN Expr_Logical(left, Tok(operator, 1), right)
    ELSE Expr_Binary(left, Tok(operator, 1), right)

\* What the language definition gives for the expression of a shape.
PrecedenceParsed(shape, op1, op2) ==
    CASE shape = "x op1 y op2 z" ->
           IF PrecedenceLevel(op2) > PrecedenceLevel(op1)
           THEN Infix(Num(1), op1, Infix(Num(2), op2, Num(3)))
           ELSE Infix(Infix(Num(1), op1, Num(2)), op2, Num(3))
      [] shape = "(x op1 y) op2 z" ->
           Infix(Expr_Grouping(Infix(Num(1), op1, Num(2))), op2, Num(3))
      [] shape = "x op1 (y op2 z)" ->
           Infix(Num(1), op1, Expr_Grouping(Infix(Num(2), op2, Num(3))))
      [] shape = "-x op2 z" -> Infix(Expr_Unary(Tok("Minus", 1), Num(1)), op2, Num(3))
      [] shape = "!x op2 z" -> Infix(Expr_Unary(Tok("Bang", 1), Num(1)), op2, Num(3))

\* The arithmetic of the operators that stay in the integers.
Arithmetic(left, operator, right) ==
    CASE operator = "Minus" -> left - right
      [] operator = "Plus" -> left + right
      [] operator = "Star" -> left * right

\* The value of the arithmetic expression of a shape.
PrecedenceValue(shape, op1, op2) ==
    CASE shape = "x op1 y op2 z" ->
           IF PrecedenceLevel(op2) > PrecedenceLevel(op1)
           THEN Arithmetic(1, op1, Arithmetic(2, op2, 3))
           ELSE Arithmetic(Arithmetic(1, op1, 2), op2, 3)
      [] shape = "(x op1 y) op2 z" -> Arithmetic(Arithmetic(1, op1, 2), op2, 3)
      [] shape = "x op1 (y op2 z)" -> Arithmetic(1, op1, Arithmetic(2, op2, 3))
      [] shape = "-x op2 z" -> Arithmetic(0 - 1, op2, 3)

\* C24: binary operators are parsed with the precedence unary > factor >
\* term > comparison > equality > and > or, left-associative within a
\* level, and a Grouping overrides it; the interpreter evaluates the parsed
\* tree, so `1 + 2 * 3` is 7 and `(1 + 2) * 3` is 9.
C24_PrecedenceAndAssociativity ==
    /\ (runs = 1 /\ program.input.kind = "precedence") =>
           result = Ok(<< Stmt_Expr(PrecedenceParsed(program.input.shape,
                                                    program.input.op1,
                                                    program.input.op2)) >>)
    /\ (runs = 1 /\ program.input.kind = "evaluate") =>
           /\ result = Ok(Unit)
           /\ output = << Number_fmt(PrecedenceValue(program.input.shape,
                                                     program.input.op1,
                                                     program.input.op2)) >>

\* print 1 + 2 * 3;  has printed 7.
C24_Witness ==
    /\ runs = 1
    /\ program.input = [kind |-> "evaluate", shape |-> "x op1 y op2 z",
                        op1 |-> "Plus", op2 |-> "Star"]
    /\ output = << "7" >>

\* The parser after parse(), with its logs, and the tokens before the Eof.
Parsed == runs = 1 /\ "parser" \in DOMAIN program

NonEof == Len(program.tokens) - 1

\* C25: parse terminates on every token list that ends in Eof: every call of
\* declaration starts before the Eof and moves the cursor forward, whether it
\* gives a statement or an error, so the statements and errors together are
\* at most the tokens before the Eof; parse ends with the cursor on the Eof,
\* without a panic, and a `(` right before the Eof gives a parse error.
C25_ParseTerminates ==
    Parsed =>
        LET declarations == program.parser.declarations
        IN /\ \A i \in DOMAIN declarations :
                  /\ ~declarations[i].panic
                  /\ declarations[i].from < NonEof
                  /\ declarations[i].from < declarations[i].to
                  /\ declarations[i].to <= NonEof
                  /\ i > 1 => declarations[i].from = declarations[i - 1].to
           /\ Len(declarations) <= NonEof
           /\ result.ok =>
                  /\ Len(result.val) = Len(declarations)
                  /\ \A i \in DOMAIN declarations : declarations[i].ok
           /\ ~result.ok =>
                  Len(result.val) =
                      Cardinality({ i \in DOMAIN declarations : ~declarations[i].ok })
           /\ program.parser.current = NonEof
           /\ (NonEof > 0 /\ program.tokens[NonEof].token_type = "LeftParen") =>
                  ~result.ok

\* `(` Eof has been parsed: one error, InvalidToken of the `(`.
C25_Witness ==
    /\ Parsed
    /\ program.tokens = << Tok("LeftParen", 1), Tok("Eof", 1) >>
    /\ result = [ok |-> FALSE, val |-> << << "InvalidToken", Tok("LeftParen", 1) >> >>]

\* The token types from which primary builds an expression without reading on.
OperandTypes == { "False", "True", "Nil", "Number", "String", "This", "Identifier" }

\* C30: every call of primary made with the cursor at Eof returns a parse
\* error: the token advance gives it there, the one consumed before, is never
\* a literal, an identifier or `this`; no call of declaration panics, so
\* previous() is never evaluated with the cursor at 0, and the cursor never
\* leaves the token list.
C30_PrimaryAtEofIsAnError ==
    Parsed =>
        /\ \A i \in DOMAIN program.parser.primary_at_end :
               /\ ~program.parser.primary_at_end[i].ok
               /\ program.parser.primary_at_end[i].token.token_type \notin OperandTypes
               /\ program.parser.primary_at_end[i].token \in
                      { program.tokens[k] : k \in 1..NonEof }
        /\ \A i \in DOMAIN program.parser.declarations :
               /\ ~program.parser.declarations[i].panic
               /\ program.parser.declarations[i].to \in 1..NonEof
        /\ program.parser.current \in 0..NonEof

\* `a ( 1 ,` Eof has been parsed: primary was called at the Eof, was given
\* the comma and returned an error.
C30_Witness ==
    /\ Parsed
    /\ program.tokens = << Id("a", 1), Tok("LeftParen", 1), Token_Number(1, 1),
                           Tok("Comma", 1), Tok("Eof", 1) >>
    /\ program.parser.primary_at_end = << [token |-> Tok("Comma", 1), ok |-> FALSE] >>
    /\ ~result.ok

(***************************************************************************)
(* SpecRepl: run_prompt of main.rs, from the parse on: each line read is   *)
(* given to run, which parses its tokens with a new Parser, ends the       *)
(* process with exit code 65 on a parse error, and otherwise interprets    *)
(* the statements with Interpreter::new().  `program.input.lines` are the  *)
(* lines read so far, `result` and `output` the result and the printed     *)
(* lines of the last run, `environment` the environment of its Interpreter *)
(* when it ended.                                                          *)
(***************************************************************************)
\* The tokens of a line of input.
ReplLine(line) ==
    CASE line = "var a = 1;" ->
           << Tok("Var", 1), Id("a", 1), Tok("Equal", 1), Token_Number(1, 1),
              Tok("Semicolon", 1), Tok("Eof", 1) >>
      [] line = "var a = 2;" ->
           << Tok("Var", 1), Id("a", 1), Tok("Equal", 1), Token_Number(2, 1),
              Tok("Semicolon", 1), Tok("Eof", 1) >>
      [] line = "print a;" ->
           << Tok("Print", 1), Id("a", 1), Tok("Semicolon", 1), Tok("Eof", 1) >>
      [] line = "print b;" ->
           << Tok("Print", 1), Id("b", 1), Tok("Semicolon", 1), Tok("Eof", 1) >>
      [] line = "fun f() { return 3; }" ->
           << Tok("Fun", 1), Id("f", 1), Tok("LeftParen", 1), Tok("RightParen", 1),
              Tok("LeftBrace", 1), Tok("Return", 1), Token_Number(3, 1),
              Tok("Semicolon", 1), Tok("RightBrace", 1), Tok("Eof", 1) >>
      [] line = "print f();" ->
           << Tok("Print", 1), Id("f", 1), Tok("LeftParen", 1), Tok("RightParen", 1),
              Tok("Semicolon", 1), Tok("Eof", 1) >>
      [] line = "print" -> << Tok("Print", 1), Tok("Eof", 1) >>

ReplLines ==
    { "var a = 1;", "var a = 2;", "print a;", "print b;", "fun f() { return 3; }",
      "print f();", "print" }

\* std::process::exit(code)
Exit(code) == Err("Exit", code)

InitRepl ==
    /\ environment = Interpreter_new.environment
    /\ prev = Interpreter_new.environment
    /\ program = [input |-> [kind |-> "repl", lines |-> <<>>], tokens |-> <<>>]
    /\ result = Ok(Unit)
    /\ output = <<>>
    /\ runs = 0

\* run(source), from the parse on
Run(line, tokens) ==
    /\ program' = [input |-> [kind |-> "repl",
                              lines |-> Append(program.input.lines, line)],
                   tokens |-> tokens]
    /\ runs' = runs + 1
    /\ prev' = environment
    /\ \E parse_result \in { Parser_method(Parser_new, "parse", << tokens >>).r } :
          IF ~parse_result.ok
          THEN /\ result' = Exit(65)
               /\ output' = <<>>
               /\ UNCHANGED environment
          ELSE \E x \in { Interpreter_interpret(
                              [environment |-> Interpreter_new.environment,
                               stdout |-> <<>>, now |-> 1],
                              parse_result.val) } :
                  /\ result' = x.r
                  /\ output' = x.i.stdout
                  /\ environment' = x.i.environment

\* for line in io::stdin().lock().lines() { run(&line.unwrap()); }
run_prompt ==
    /\ runs < MaxLines
    /\ result # Exit(65)
    /\ \E line \in ReplLines : Run(line, ReplLine(line))

NextRepl == run_prompt

SpecRepl == InitRepl /\ [][NextRepl]_vars

\* The lines read before the last one.
EarlierLines == SubSeq(program.input.lines, 1, runs - 1)

\* The last of the earlier lines that is one of `lines`, or "" if none is.
RECURSIVE LastOf(_, _)
LastOf(lines, earlier) ==
    IF earlier = <<>> THEN ""
    ELSE IF earlier[Len(earlier)] \in lines THEN earlier[Len(earlier)]
    ELSE LastOf(lines, SubSeq(earlier, 1, Len(earlier) - 1))

\* The last line read is `line`, and no line has ended the process.
LastLine(line) ==
    /\ runs > 0
    /\ program.input.kind = "repl"
    /\ program.input.lines[runs] = line
    /\ \A i \in 1..runs : program.input.lines[i] # "print"

\* C23: in REPL mode the lines run against one persistent interpreter: a
\* variable or function defined by one line is visible to the lines after
\* it, also after a line that ended in a runtime error, and a second
\* `var a` at top level overwrites the first without error.
C23_ReplKeepsDefinitions ==
    /\ (LastLine("print a;") /\ LastOf({"var a = 1;", "var a = 2;"}, EarlierLines) # "")
           => /\ result = Ok(Unit)
              /\ output = << IF LastOf({"var a = 1;", "var a = 2;"}, EarlierLines)
                                   = "var a = 1;" THEN "1" ELSE "2" >>
    /\ (LastLine("print f();") /\ LastOf({"fun f() { return 3; }"}, EarlierLines) # "")
           => /\ result = Ok(Unit)
              /\ output = << "3" >>
    /\ (LastLine("var a = 2;") /\ LastOf({"var a = 1;"}, EarlierLines) # "")
           => result = Ok(Unit)

====
